---- MODULE Spec2Model ----
(***************************************************************************)
(* packx (src/src/index.ts): the per-file pipeline of main().  The include *)
(* and exclude literals are compiled into RegExp matchers, the file is     *)
(* selected by fileContainsAnyStrings, and, when a context radius is in    *)
(* force, extractContextWindows scans the content line by line             *)
(* (findAllMatches), builds one candidate window per match and merges the  *)
(* candidates in a single sweep.  SpecRun is main() over a directory tree  *)
(* (option merge, discovery, filter loop, output loop, summary, exit       *)
(* code); SpecConcept is runConceptMode of src/src/concept.ts (keyword     *)
(* ranking, working set, budget tuning, forwarded arguments).              *)
(*                                                                         *)
(* Text is a sequence of one-character strings; "\n" is the newline.       *)
(* A value of type T | null is a sequence of length 0 (null) or 1.         *)
(***************************************************************************)
EXTENDS Integers, Sequences, FiniteSets, TLC

\* ------------------------------------------------------------------ bounds
MaxLitLen == 2
MaxTextLen == 3
MaxContentLen == 8
MaxRadius == 2

\* --------------------------------------------------------------- utilities
Min(S) == CHOOSE x \in S : \A y \in S : x <= y

Max2(a, b) == IF a >= b THEN a ELSE b

Min2(a, b) == IF a <= b THEN a ELSE b

SeqsFromTo(S, lo, hi) == UNION {[1..n -> S] : n \in lo..hi}

\* 10 * 1024 * 1024, the size guard of fileContainsAnyStrings
MaxFileBytes == 10 * 1024 * 1024

\* ------------------------------------------------------ String.prototype
LowerLetters == <<"a", "b", "c", "d", "f", "i", "n", "o", "p", "r", "t", "x", "y">>

UpperLetters == <<"A", "B", "C", "D", "F", "I", "N", "O", "P", "R", "T", "X", "Y">>

\* Canonicalize of a non-unicode RegExp: toUpperCase of the single character
ToUpperCase(c) ==
  IF \E i \in 1..Len(LowerLetters) : LowerLetters[i] = c
  THEN UpperLetters[CHOOSE i \in 1..Len(LowerLetters) : LowerLetters[i] = c]
  ELSE c

\* content.split('\n'): always at least one line; a trailing "\n" yields a
\* last empty line
SplitLines(s) ==
  LET RECURSIVE go(_, _, _)
      go(i, cur, acc) ==
        IF i > Len(s) THEN Append(acc, cur)
        ELSE IF s[i] = "\n" THEN go(i + 1, <<>>, Append(acc, cur))
        ELSE go(i + 1, Append(cur, s[i]), acc)
  IN go(1, <<>>, <<>>)

\* lines.slice(startLine - 1, endLine): the lines startLine..endLine (1-based),
\* clipped to the array as Array.prototype.slice clips
SliceLines(ls, startLine, endLine) ==
  LET from == Max2(startLine, 1)
      to == Min2(endLine, Len(ls))
  IN IF from > to THEN <<>> ELSE SubSeq(ls, from, to)

\* ------------------------------------------------------------- escRegex
\* the character class of escRegex: . * + ? ^ $ { } ( ) | [ ] \
RegexSpecial ==
  {".", "*", "+", "?", "^", "$", "{", "}", "(", ")", "|", "[", "]", "\\"}

\* (variant: the class of escaped characters lacks the dot)
escRegexDotUnescaped(lit) ==
  LET RECURSIVE go(_)
      go(i) ==
        IF i > Len(lit) THEN <<>>
        ELSE (IF lit[i] \in RegexSpecial \ {"."} THEN <<"\\", lit[i]>>
              ELSE <<lit[i]>>)
             \o go(i + 1)
  IN go(1)

\* lit.replace(/[.*+?^${}()|[\]\\]/g, "\\$&")
escRegex(lit) ==
  LET RECURSIVE go(_)
      go(i) ==
        IF i > Len(lit) THEN <<>>
        ELSE (IF lit[i] \in RegexSpecial THEN <<"\\", lit[i]>> ELSE <<lit[i]>>)
             \o go(i + 1)
  IN go(1)

\* Array.prototype.join("|")
JoinBar(parts) ==
  LET RECURSIVE go(_)
      go(i) ==
        IF i > Len(parts) THEN <<>>
        ELSE (IF i = 1 THEN <<>> ELSE <<"|">>) \o parts[i] \o go(i + 1)
  IN go(1)

\* (variant: the matchers are global)
RegexFlagsGlobal(cs) == IF cs THEN {"g"} ELSE {"g", "i"}

\* (variant: the i flag is never set)
RegexFlagsNeverI(cs) == {}

\* caseSensitive ? "" : "i" (flags are the set of their letters)
RegexFlags(cs) == IF cs THEN {} ELSE {"i"}

\* (variant: an empty list compiles to the RegExp of the empty source)
CompilePatternOfAnyList(list, cs) ==
  <<[source |-> JoinBar([i \in 1..Len(list) |-> escRegex(list[i])]),
     flags |-> RegexFlags(cs), lastIndex |-> 0]>>

\* list.length > 0 ? new RegExp(list.map(escRegex).join("|"), regexFlags) : null
CompilePattern(list, cs) ==
  IF Len(list) > 0
  THEN <<[source |-> JoinBar([i \in 1..Len(list) |-> escRegex(list[i])]),
          flags |-> RegexFlags(cs), lastIndex |-> 0]>>
  ELSE <<>>

\* ------------------------------------------------------ the RegExp engine
\* The fragment of the ECMAScript pattern syntax that the texts of this
\* module can spell: characters, \c (identity escape), . (any character but
\* a line terminator), the greedy postfix *, and the alternation |.
Atom(kind, ch) == [kind |-> kind, ch |-> ch, star |-> FALSE]

\* [alts: the alternatives, each a sequence of atoms; ok: FALSE when the
\* RegExp constructor throws a SyntaxError (nothing to repeat, \ at end)]
ParseRegex(src) ==
  LET RECURSIVE go(_, _, _)
      go(i, cur, alts) ==
        IF i > Len(src) THEN [alts |-> Append(alts, cur), ok |-> TRUE]
        ELSE IF src[i] = "\\"
          THEN IF i = Len(src) THEN [alts |-> <<>>, ok |-> FALSE]
               ELSE go(i + 2, Append(cur, Atom("char", src[i + 1])), alts)
        ELSE IF src[i] = "|" THEN go(i + 1, <<>>, Append(alts, cur))
        ELSE IF src[i] = "." THEN go(i + 1, Append(cur, Atom("any", ".")), alts)
        ELSE IF src[i] = "*"
          THEN IF cur = <<>> \/ cur[Len(cur)].star
               THEN [alts |-> <<>>, ok |-> FALSE]
               ELSE go(i + 1, [cur EXCEPT ![Len(cur)].star = TRUE], alts)
        ELSE go(i + 1, Append(cur, Atom("char", src[i])), alts)
  IN go(1, <<>>, <<>>)

Canonicalize(c, flags) == IF "i" \in flags THEN ToUpperCase(c) ELSE c

AtomMatches(a, c, flags) ==
  IF a.kind = "any" THEN c # "\n"
  ELSE Canonicalize(a.ch, flags) = Canonicalize(c, flags)

\* the backtracking matcher: the end index (0-based, exclusive) of the match
\* of atoms[k..] that starts at index pos of text, or -1
RECURSIVE MatchHere(_, _, _, _, _)
MatchHere(atoms, k, text, pos, flags) ==
  IF k > Len(atoms) THEN pos
  ELSE
    LET a == atoms[k]
        fits(p) == p < Len(text) /\ AtomMatches(a, text[p + 1], flags)
    IN IF ~a.star
       THEN IF fits(pos) THEN MatchHere(atoms, k + 1, text, pos + 1, flags)
            ELSE -1
       ELSE
         LET run == CHOOSE n \in 0..(Len(text) - pos) :
                       /\ \A j \in 0..(n - 1) : fits(pos + j)
                       /\ ~fits(pos + n)
             RECURSIVE try(_)
             try(n) ==
               IF n < 0 THEN -1
               ELSE LET r == MatchHere(atoms, k + 1, text, pos + n, flags)
                    IN IF r # -1 THEN r ELSE try(n - 1)
         IN try(run)

\* the first alternative, in order, that matches at pos
MatchAlts(alts, text, pos, flags) ==
  LET ends == [i \in 1..Len(alts) |-> MatchHere(alts[i], 1, text, pos, flags)]
      hits == {i \in 1..Len(alts) : ends[i] # -1}
  IN IF hits = {} THEN -1 ELSE ends[Min(hits)]

\* RegExp.prototype.exec from lastIndex: null (<<>>) or the leftmost match,
\* [index, end) of text
RegExpExec(re, text, from) ==
  LET p == ParseRegex(re.source)
      starts == {s \in from..Len(text) :
                   MatchAlts(p.alts, text, s, re.flags) # -1}
  IN IF ~p.ok \/ starts = {} THEN <<>>
     ELSE LET s == Min(starts)
          IN <<[index |-> s, end |-> MatchAlts(p.alts, text, s, re.flags)]>>

\* where RegExp.prototype.test starts to search: a RegExp with the g flag
\* starts at its lastIndex, one without at 0
TestFrom(re) == IF "g" \in re.flags THEN re.lastIndex ELSE 0

\* RegExp.prototype.test
RegExpTest(re, text) == RegExpExec(re, text, TestFrom(re)) # <<>>

\* the RegExp after test: one with the g flag keeps the end of the match as
\* its lastIndex, or 0 when there was none; one without keeps nothing
AfterTest(re, text) ==
  LET found == RegExpExec(re, text, TestFrom(re))
  IN IF "g" \notin re.flags THEN re
     ELSE [re EXCEPT !.lastIndex = IF found = <<>> THEN 0 ELSE found[1].end]

\* ------------------------------------------------------------- the state
VARIABLES
  strings,          \* include literals (after strings.filter(Boolean))
  excludeStrings,   \* exclude literals
  caseSensitive,    \* parsed["case-sensitive"]
  contextLines,     \* parsed.lines: 0 is falsy, "entire file"
  content,          \* the candidate file's text
  fileSize,         \* stat.size of the candidate file
  readable,         \* FALSE: stat/readFile throws in the content filter
  readableAtEmit,   \* FALSE: readFile throws in the output stage
  pc,               \* where main() is
  pattern,          \* RegExp | null
  excludePattern,   \* RegExp | null
  fileMatched,      \* the file was pushed to matched
  lines,            \* content.split('\n') inside extractContextWindows
  lineIndex,        \* forEach index of findAllMatches (0-based)
  lastIndex,        \* linePattern.lastIndex
  matches,          \* MatchPosition[]
  windows,          \* the candidate windows, one per match
  wi,               \* how many candidates the merge loop has consumed
  current,          \* ContextWindow | null
  merged,           \* ContextWindow[]
  section,          \* what the output stage made of the file
  warned,           \* "Warning: Could not read file" was printed
  argv,             \* process.argv as typed, with the config file of -f
  tree,             \* the files under the root, in the order glob walks them
  stage,            \* where main() is in a run over the whole tree
  extensions,       \* Set<string>, in insertion order
  excludePatterns,  \* string[]: the user's part of glob's ignore list
  candidates,       \* Set<string>, in insertion order
  filteredCandidates, \* string[]
  matched,          \* string[]
  fi,               \* index of the for loop under way
  listing,          \* relativePaths as printed in the directory listing
  sections,         \* the fileOutput of every file, in the order appended
  fileSizes,        \* { path, size, tokens }[]
  warnings,         \* the paths of the "Could not read file" warnings
  reads,            \* the candidate files main() has stat'ed or read
  exitCode,         \* the status of process.exit, if it was called
  written,          \* where the output went: "none", "file" or "stdout"
  summary,          \* the figures of the Pack Summary, once printed
  totalMatchCount,  \* the matches of the windows written so far
  totalWindowCount, \* the windows written so far
  searchString,     \* concept mode: the positionals, joined and trimmed
  seedTerms,        \* the words of the search string
  ranked,           \* what scoreKeywordsTFIDF returned
  opts,             \* ConceptOptions: keywords, topFiles, preview
  maxTokens,        \* Number(parsed['max-tokens']) || 0
  packArgs,         \* the arguments after "--"
  topDocs,          \* the documents of the top search results
  fileWeights,      \* the fileWeight of every document that was scored
  topKeywords,      \* the keyword list
  tunedLines,       \* the context radius under tuning
  tunedKeywords,    \* the keyword count under tuning
  tunedTopFiles,    \* the working-set size under tuning
  estimate,         \* the estimate of the last iteration, if there was one
  packxArgs         \* the arguments handed to packx, once built

inputs ==
  <<strings, excludeStrings, caseSensitive, contextLines, content, fileSize,
    readable, readableAtEmit>>

scan == <<lines, lineIndex, lastIndex, matches>>

merge == <<windows, wi, current, merged>>

vars ==
  <<strings, excludeStrings, caseSensitive, contextLines, content, fileSize,
    readable, readableAtEmit, pc, pattern, excludePattern, fileMatched,
    lines, lineIndex, lastIndex, matches, windows, wi, current, merged,
    section, warned, argv, tree, stage, extensions, excludePatterns,
    candidates, filteredCandidates, matched, fi, listing, sections,
    fileSizes, warnings, reads, exitCode, written, summary, totalMatchCount,
    totalWindowCount, searchString, seedTerms, ranked, opts, maxTokens,
    packArgs, topDocs, fileWeights, topKeywords, tunedLines, tunedKeywords,
    tunedTopFiles, estimate, packxArgs>>

\* the state of a run over the whole tree
job ==
  <<argv, tree, stage, extensions, excludePatterns, candidates,
    filteredCandidates, matched, fi, listing, sections, fileSizes, warnings,
    reads, exitCode, written, summary, totalMatchCount,
    totalWindowCount>>

\* the state of concept mode (src/src/concept.ts)
concept ==
  <<searchString, seedTerms, ranked, opts, maxTokens, packArgs, topDocs,
    fileWeights, topKeywords, tunedLines, tunedKeywords, tunedTopFiles,
    estimate, packxArgs>>

\* ---------------------------------------------------------- the inputs
Sigma == {"a", "A", ".", "*"}

\* [strings, excludeStrings, caseSensitive, contextLines, content]
Run(ss, xs, cs, r, c) ==
  [strings |-> ss, excludeStrings |-> xs, caseSensitive |-> cs,
   contextLines |-> r, content |-> c, fileSize |-> Len(c),
   readable |-> TRUE, readableAtEmit |-> TRUE]

\* one literal over Sigma against one line over Sigma, both case modes
LiteralRuns ==
  {Run(<<l>>, <<>>, cs, 1, c) :
     l \in SeqsFromTo(Sigma, 1, MaxLitLen),
     c \in SeqsFromTo(Sigma, 0, MaxTextLen),
     cs \in BOOLEAN}

\* the literal "a" in every text of "a" and newlines, every radius
WindowRuns ==
  {Run(<<<<"a">>>>, <<>>, FALSE, r, c) :
     r \in 0..MaxRadius,
     c \in SeqsFromTo({"a", "\n"}, 0, MaxContentLen)}

PairSigma == {"a", "|", "\\"}

\* two literals: the alternation, and the literals that spell | and \
PairRuns ==
  {Run(<<l1, l2>>, <<>>, TRUE, 1, c) :
     l1 \in SeqsFromTo(PairSigma, 1, MaxLitLen - 1),
     l2 \in SeqsFromTo(PairSigma, 1, MaxLitLen - 1),
     c \in SeqsFromTo(PairSigma, 0, MaxTextLen)}

\* [fileSize beyond the text, readable, readableAtEmit]: a plain file, a
\* file of exactly 10 MiB, one byte more, a file that cannot be read, a
\* file that vanishes before the output stage
FileConditions ==
  {<<0, TRUE, TRUE>>, <<1, TRUE, TRUE>>, <<2, TRUE, TRUE>>,
   <<0, FALSE, FALSE>>, <<0, TRUE, FALSE>>}

\* the content filter: with and without include and exclude literals, both
\* case modes, every file condition
FilterRuns ==
  {[Run(ss, xs, cs, r, c) EXCEPT
      !.fileSize = IF fc[1] = 0 THEN Len(c) ELSE MaxFileBytes + fc[1] - 1,
      !.readable = fc[2], !.readableAtEmit = fc[3]] :
     ss \in {<<>>, <<<<"a">>>>},
     xs \in {<<>>, <<<<"b">>>>, <<<<".">>>>},
     cs \in BOOLEAN,
     r \in 0..1,
     c \in SeqsFromTo({"a", "b", "B"}, 0, MaxTextLen - 1),
     fc \in FileConditions}

\* the runs the documentation spells out
ScenarioTodo ==
  Run(<<<<"T", "O", "D", "O">>>>, <<>>, FALSE, 1,
      <<"x", "\n", "T", "O", "D", "O", "\n", "y", "\n">>)

ScenarioTwoMatches ==
  Run(<<<<"T">>>>, <<>>, FALSE, 1,
      <<"x", "\n", "T", "\n", "x", "\n", "T", "\n", "x">>)

ScenarioFooBar ==
  Run(<<<<"f", "o", "o">>, <<"b", "a", "r">>>>, <<>>, FALSE, 1,
      <<"F", "O", "O", " ", "a", "n", "d", " ", "B", "A", "R">>)

ScenarioMetaMiss ==
  Run(<<<<"a", ".", "b", "*", "c">>>>, <<>>, FALSE, 1,
      <<"a", "X", "b", "Y", "Y", "Y", "c">>)

ScenarioMetaHit ==
  Run(<<<<"a", ".", "b", "*", "c">>>>, <<>>, FALSE, 1,
      <<"z", "a", ".", "b", "*", "c", "z">>)

ScenarioApi ==
  {Run(<<<<"A", "P", "I">>>>, <<>>, cs, 1,
       <<"a", "p", "i", "\n", "A", "p", "i", "\n", "A", "P", "I">>) :
     cs \in BOOLEAN}

ScenarioOverlap ==
  Run(<<<<"a", "a">>>>, <<>>, FALSE, 1, <<"a", "a", "a">>)

\* the first literal is a prefix of the second
ScenarioPrefixAlt ==
  Run(<<<<"a">>, <<"a", "b">>>>, <<>>, TRUE, 1, <<"a", "b", "b", "a", "b">>)

\* a literal that spans a newline matches the file and no line of it
ScenarioAcrossLines ==
  Run(<<<<"a", "\n", "b">>>>, <<>>, FALSE, 1, <<"a", "\n", "b">>)

\* a radius larger than the file
ScenarioClip ==
  Run(<<<<"T">>>>, <<>>, FALSE, MaxContentLen + MaxRadius,
      <<"x", "\n", "T", "\n", "y">>)

ScenarioRuns ==
  {ScenarioTodo, ScenarioTwoMatches, ScenarioFooBar, ScenarioMetaMiss,
   ScenarioMetaHit, ScenarioOverlap, ScenarioPrefixAlt, ScenarioAcrossLines,
   ScenarioClip}
  \cup ScenarioApi

\* packx proper: concept mode is not in play
NoConcept ==
  /\ searchString = <<>>
  /\ seedTerms = <<>>
  /\ ranked = <<>>
  /\ opts = <<>>
  /\ maxTokens = 0
  /\ packArgs = <<>>
  /\ topDocs = <<>>
  /\ fileWeights = <<>>
  /\ topKeywords = <<>>
  /\ tunedLines = 0
  /\ tunedKeywords = 0
  /\ tunedTopFiles = 0
  /\ estimate = <<>>
  /\ packxArgs = <<>>

\* one file on its own: no command line, no tree, no job under way
NoJob ==
  /\ argv = <<>>
  /\ tree = <<>>
  /\ stage = "file"
  /\ extensions = <<>>
  /\ excludePatterns = <<>>
  /\ candidates = <<>>
  /\ filteredCandidates = <<>>
  /\ matched = <<>>
  /\ fi = 0
  /\ listing = <<>>
  /\ sections = <<>>
  /\ fileSizes = <<>>
  /\ warnings = <<>>
  /\ reads = {}
  /\ exitCode = <<>>
  /\ written = "none"
  /\ summary = <<>>
  /\ totalMatchCount = 0
  /\ totalWindowCount = 0
  /\ NoConcept

\* the command line and the file are those of a run of the set
StartsFrom(runs) ==
  \E run \in runs :
    /\ strings = run.strings
    /\ excludeStrings = run.excludeStrings
    /\ caseSensitive = run.caseSensitive
    /\ contextLines = run.contextLines
    /\ content = run.content
    /\ fileSize = run.fileSize
    /\ readable = run.readable
    /\ readableAtEmit = run.readableAtEmit

Init ==
  /\ \/ StartsFrom(LiteralRuns)
     \/ StartsFrom(WindowRuns)
     \/ StartsFrom(PairRuns)
     \/ StartsFrom(FilterRuns)
     \/ StartsFrom(ScenarioRuns)
  /\ pc = "compile"
  /\ pattern = <<>>
  /\ excludePattern = <<>>
  /\ fileMatched = FALSE
  /\ lines = <<>>
  /\ lineIndex = 0
  /\ lastIndex = 0
  /\ matches = <<>>
  /\ windows = <<>>
  /\ wi = 0
  /\ current = <<>>
  /\ merged = <<>>
  /\ section = "none"
  /\ warned = FALSE
  /\ NoJob

\* ---------------------------------------------------------- main: compile
\* const pattern = ..., const excludePattern = ...
CompilePatterns ==
  /\ pc = "compile"
  /\ pattern' = CompilePattern(strings, caseSensitive)
  /\ excludePattern' = CompilePattern(excludeStrings, caseSensitive)
  /\ pc' = "filter"
  /\ UNCHANGED <<inputs, fileMatched, scan, merge, section, warned>>
  /\ UNCHANGED job
  /\ UNCHANGED concept

\* ----------------------------------------------------- the content filter
\* (variant: the include strings are tested first and decide alone)
fileContainsIncludeFirst(pat, xpat) ==
  IF ~readable THEN FALSE
  ELSE IF fileSize > MaxFileBytes THEN FALSE
  ELSE IF pat # <<>> /\ RegExpTest(pat[1], content) THEN TRUE
  ELSE IF xpat # <<>> /\ RegExpTest(xpat[1], content) THEN FALSE
  ELSE pat = <<>>

\* fileContainsAnyStrings(absPath, pattern, excludePattern)
fileContainsAnyStrings(pat, xpat) ==
  IF ~readable THEN FALSE
  ELSE IF fileSize > MaxFileBytes THEN FALSE
  ELSE IF xpat # <<>> /\ RegExpTest(xpat[1], content) THEN FALSE
  ELSE IF pat # <<>> THEN RegExpTest(pat[1], content)
  ELSE TRUE

\* the loop body of "if (!pattern)": only a run with exclude literals reads
\* the file
PassThroughSelects(xpat) ==
  IF xpat = <<>> THEN TRUE
  ELSE IF ~readable THEN FALSE
  ELSE IF fileSize > MaxFileBytes THEN FALSE
  ELSE ~RegExpTest(xpat[1], content)

\* the file was read and excludePattern.test(buf) was called
ExcludeTested ==
  excludePattern # <<>> /\ readable /\ fileSize <= MaxFileBytes

\* the file was read and pattern.test(buf) was called
IncludeTested ==
  /\ pattern # <<>> /\ readable /\ fileSize <= MaxFileBytes
  /\ ~(excludePattern # <<>> /\ RegExpTest(excludePattern[1], content))

\* 2) Content filter (or pass-through if no strings); the two RegExps are
\* the same objects for every file
FilterFile ==
  /\ pc = "filter"
  /\ stage \in {"file", "filter"}
  /\ fileMatched' = IF pattern = <<>> THEN PassThroughSelects(excludePattern)
                    ELSE fileContainsAnyStrings(pattern, excludePattern)
  /\ excludePattern' = IF ExcludeTested
                       THEN <<AfterTest(excludePattern[1], content)>>
                       ELSE excludePattern
  /\ pattern' = IF IncludeTested THEN <<AfterTest(pattern[1], content)>>
                ELSE pattern
  /\ pc' = IF fileMatched' THEN "emit" ELSE "done"
  /\ UNCHANGED <<inputs, scan, merge, section, warned>>
  /\ UNCHANGED job
  /\ UNCHANGED concept

\* ------------------------------------------------------- the output stage
\* (variant: the radius of -l is in force without search strings as well)
ContextLinesOfFlagAlone == contextLines

\* hasSearchStrings ? (parsed.lines || parsed.l) : undefined, as tested by
\* "if (contextLines)": the radius in force, 0 when the whole file is emitted
EffectiveContextLines == IF Len(strings) > 0 THEN contextLines ELSE 0

\* the body of "for (const [index, filePath] of matched.entries())" up to the
\* call of extractContextWindows
EmitFile ==
  /\ pc = "emit"
  /\ stage \in {"file", "emit"}
  /\ IF ~readableAtEmit
     THEN /\ warned' = TRUE
          /\ pc' = "done"
          /\ UNCHANGED <<section, lines>>
     ELSE IF EffectiveContextLines # 0
     THEN /\ lines' = SplitLines(content)
          /\ pc' = "scan"
          /\ UNCHANGED <<section, warned>>
     ELSE /\ section' = "whole"
          /\ pc' = "done"
          /\ UNCHANGED <<warned, lines>>
  /\ UNCHANGED <<inputs, pattern, excludePattern, fileMatched, lineIndex,
                 lastIndex, matches, merge>>
  /\ UNCHANGED job
  /\ UNCHANGED concept

\* ------------------------------------------------------- findAllMatches
\* (variant: new RegExp(pattern.source, 'g'))
LinePatternDropsFlags(re) ==
  [source |-> re.source, flags |-> {"g"}, lastIndex |-> 0]

\* new RegExp(pattern.source, pattern.flags.replace('g', '') + 'g')
LinePattern(re) ==
  [source |-> re.source, flags |-> (re.flags \ {"g"}) \cup {"g"},
   lastIndex |-> 0]

\* linePattern.exec(line) on the line under the forEach index
ExecOnLine ==
  RegExpExec(LinePattern(pattern[1]), lines[lineIndex + 1], lastIndex)

\* (variant: the column is 1-based)
MatchPositionOneBasedColumn(m) ==
  [line |-> lineIndex + 1,
   column |-> m.index + 1,
   match |-> SubSeq(lines[lineIndex + 1], m.index + 1, m.end)]

\* { line: lineIndex + 1, column: match.index, match: match[0] }
MatchPosition(m) ==
  [line |-> lineIndex + 1,
   column |-> m.index,
   match |-> SubSeq(lines[lineIndex + 1], m.index + 1, m.end)]

\* (variant: scanning resumes one character after the start of the match)
LastIndexAfterOneChar(m) == m.index + 1

\* exec of a global RegExp leaves lastIndex at the end of the match
LastIndexAfter(m) == m.end

\* one turn of the while loop: exec found a match.  Matches of at least one
\* character never outnumber the characters of the content, so the bound on
\* matches only stops a loop whose lastIndex no longer advances.
ScanMatch ==
  /\ pc = "scan"
  /\ lineIndex < Len(lines)
  /\ Len(matches) <= Len(content)
  /\ ExecOnLine # <<>>
  /\ matches' = Append(matches, MatchPosition(ExecOnLine[1]))
  /\ lastIndex' = LastIndexAfter(ExecOnLine[1])
  /\ UNCHANGED <<inputs, pc, pattern, excludePattern, fileMatched, lines,
                 lineIndex, merge, section, warned>>
  /\ UNCHANGED job
  /\ UNCHANGED concept

\* exec returned null: the while loop ends and forEach takes the next line
\* with a fresh linePattern
ScanNextLine ==
  /\ pc = "scan"
  /\ lineIndex < Len(lines)
  /\ ExecOnLine = <<>>
  /\ lineIndex' = lineIndex + 1
  /\ lastIndex' = 0
  /\ UNCHANGED <<inputs, pc, pattern, excludePattern, fileMatched, lines,
                 matches, merge, section, warned>>
  /\ UNCHANGED job
  /\ UNCHANGED concept

\* ------------------------------------------------- extractContextWindows
\* (variant: the end of the window is not clipped to the file)
CandidateWindowUnclipped(ls, match, radius) ==
  LET startLine == Max2(1, match.line - radius)
      endLine == match.line + radius
  IN [startLine |-> startLine,
      endLine |-> endLine,
      lines |-> SliceLines(ls, startLine, endLine),
      matches |-> <<match>>]

\* the candidate window of one match
CandidateWindow(ls, match, radius) ==
  LET startLine == Max2(1, match.line - radius)
      endLine == Min2(Len(ls), match.line + radius)
  IN [startLine |-> startLine,
      endLine |-> endLine,
      lines |-> SliceLines(ls, startLine, endLine),
      matches |-> <<match>>]

\* "Create initial windows"
InitialWindows(ls, ms, radius) ==
  [i \in 1..Len(ms) |-> CandidateWindow(ls, ms[i], radius)]

\* findAllMatches has returned: "if (matches.length === 0) return []", else
\* the candidate windows are built
BuildWindows ==
  /\ pc = "scan"
  /\ lineIndex = Len(lines)
  /\ IF Len(matches) = 0
     THEN /\ pc' = "returned"
          /\ UNCHANGED <<windows, wi>>
     ELSE /\ windows' = InitialWindows(lines, matches, contextLines)
          /\ wi' = 0
          /\ pc' = "merge"
  /\ UNCHANGED <<inputs, pattern, excludePattern, fileMatched, scan, current,
                 merged, section, warned>>
  /\ UNCHANGED job
  /\ UNCHANGED concept

\* (variant: only windows that share a line merge)
TouchesOverlapOnly(cur, window) == window.startLine <= cur.endLine

\* (variant: windows one line apart merge too)
TouchesAcrossGap(cur, window) == window.startLine <= cur.endLine + 2

\* "window.startLine <= current.endLine + 1"
Touches(cur, window) == window.startLine <= cur.endLine + 1

\* (variant: the candidate's matches are not taken over)
AbsorbForgetsMatches(ls, cur, window) ==
  LET endLine == Max2(cur.endLine, window.endLine)
  IN [startLine |-> cur.startLine,
      endLine |-> endLine,
      lines |-> SliceLines(ls, cur.startLine, endLine),
      matches |-> cur.matches]

\* "Merge windows": the accumulator widened by the candidate
Absorb(ls, cur, window) ==
  LET endLine == Max2(cur.endLine, window.endLine)
  IN [startLine |-> cur.startLine,
      endLine |-> endLine,
      lines |-> SliceLines(ls, cur.startLine, endLine),
      matches |-> cur.matches \o window.matches]

\* one turn of "for (const window of windows)" on [merged, current]
MergeStep(ls, acc, window) ==
  IF acc.current = <<>>
  THEN [merged |-> acc.merged, current |-> <<window>>]
  ELSE IF Touches(acc.current[1], window)
  THEN [merged |-> acc.merged,
        current |-> <<Absorb(ls, acc.current[1], window)>>]
  ELSE [merged |-> Append(acc.merged, acc.current[1]), current |-> <<window>>]

\* (variant: the last accumulator is never pushed)
FinalFlushForgets(acc) == acc.merged

\* "if (current) merged.push(current)"
FinalFlush(acc) ==
  IF acc.current # <<>> THEN Append(acc.merged, acc.current[1]) ELSE acc.merged

\* the whole sweep over a window list
MergeWindows(ls, ws) ==
  LET RECURSIVE go(_, _)
      go(i, acc) == IF i > Len(ws) THEN acc
                    ELSE go(i + 1, MergeStep(ls, acc, ws[i]))
  IN FinalFlush(go(1, [merged |-> <<>>, current |-> <<>>]))

MergeNext ==
  /\ pc = "merge"
  /\ wi < Len(windows)
  /\ LET acc == MergeStep(lines, [merged |-> merged, current |-> current],
                          windows[wi + 1])
     IN /\ merged' = acc.merged
        /\ current' = acc.current
  /\ wi' = wi + 1
  /\ UNCHANGED <<inputs, pc, pattern, excludePattern, fileMatched, scan,
                 windows, section, warned>>
  /\ UNCHANGED job
  /\ UNCHANGED concept

\* the sweep is over: "if (current) merged.push(current); return merged"
ReturnWindows ==
  /\ pc = "merge"
  /\ wi = Len(windows)
  /\ merged' = FinalFlush([merged |-> merged, current |-> current])
  /\ current' = <<>>
  /\ pc' = "returned"
  /\ UNCHANGED <<inputs, pattern, excludePattern, fileMatched, scan, windows,
                 wi, section, warned>>
  /\ UNCHANGED job
  /\ UNCHANGED concept

\* (variant: the section is written whatever the windows)
HasWindowsOrNone(ws) == Len(ws) >= 0

\* "if (windows.length > 0)"
HasWindows(ws) == Len(ws) > 0

\* main() with the windows of the file: "if (windows.length > 0)" the file
\* gets its section
WriteSection ==
  /\ pc = "returned"
  /\ section' = IF HasWindows(merged) THEN "windows" ELSE section
  /\ pc' = "done"
  /\ UNCHANGED <<inputs, pattern, excludePattern, fileMatched, scan, merge,
                 warned>>
  /\ UNCHANGED job
  /\ UNCHANGED concept

Next ==
  \/ CompilePatterns
  \/ FilterFile
  \/ EmitFile
  \/ ScanMatch
  \/ ScanNextLine
  \/ BuildWindows
  \/ MergeNext
  \/ ReturnWindows
  \/ WriteSection

Spec == Init /\ [][Next]_vars

\* ------------------------------------- extractContextWindows on its own
\* extractContextWindows(content, pattern, contextLines) called with any
\* content, any matcher the program compiles and any radius
InitExtract ==
  /\ \/ StartsFrom(LiteralRuns)
     \/ StartsFrom(WindowRuns)
     \/ StartsFrom(PairRuns)
     \/ StartsFrom(ScenarioRuns)
  /\ pattern = CompilePattern(strings, caseSensitive)
  /\ lines = SplitLines(content)
  /\ pc = "scan"
  /\ excludePattern = <<>>
  /\ fileMatched = FALSE
  /\ lineIndex = 0
  /\ lastIndex = 0
  /\ matches = <<>>
  /\ windows = <<>>
  /\ wi = 0
  /\ current = <<>>
  /\ merged = <<>>
  /\ section = "none"
  /\ warned = FALSE
  /\ NoJob

NextExtract ==
  \/ ScanMatch
  \/ ScanNextLine
  \/ BuildWindows
  \/ MergeNext
  \/ ReturnWindows

SpecExtract == InitExtract /\ [][NextExtract]_vars

\* ============================================ a run over the whole tree
\* ------------------------------------------------------ String.prototype
\* toLowerCase of the single character
ToLowerCase(c) ==
  IF \E i \in 1..Len(UpperLetters) : UpperLetters[i] = c
  THEN LowerLetters[CHOOSE i \in 1..Len(UpperLetters) : UpperLetters[i] = c]
  ELSE c

LowerCase(s) == [i \in 1..Len(s) |-> ToLowerCase(s[i])]

WhiteSpace == {" ", "\t", "\n", "\r"}

\* String.prototype.trim
Trim(s) ==
  LET RECURSIVE start(_)
      start(t) == IF t # <<>> /\ Head(t) \in WhiteSpace THEN start(Tail(t))
                  ELSE t
      RECURSIVE end(_)
      end(t) == IF t # <<>> /\ t[Len(t)] \in WhiteSpace
                THEN end(SubSeq(t, 1, Len(t) - 1))
                ELSE t
  IN end(start(s))

\* s.split(sep) for a separator of one character
SplitOn(s, sep) ==
  LET RECURSIVE go(_, _, _)
      go(i, cur, acc) ==
        IF i > Len(s) THEN Append(acc, cur)
        ELSE IF s[i] = sep THEN go(i + 1, <<>>, Append(acc, cur))
        ELSE go(i + 1, Append(cur, s[i]), acc)
  IN go(1, <<>>, <<>>)

\* s.includes(c) for a single character
Includes(s, c) == \E i \in 1..Len(s) : s[i] = c

\* s.startsWith(prefix)
StartsWith(s, prefix) ==
  Len(s) >= Len(prefix) /\ SubSeq(s, 1, Len(prefix)) = prefix

\* (variant: the empty string is kept)
FilterBooleanKeepsEmpty(list) == list

\* array.filter(Boolean) on strings: the empty string is falsy
FilterBoolean(list) == SelectSeq(list, LAMBDA v : v # <<>>)

\* the flattening of array.flatMap: the lists of a list, joined in order
Flatten(lists) ==
  LET RECURSIVE go(_)
      go(i) == IF i > Len(lists) THEN <<>> ELSE lists[i] \o go(i + 1)
  IN go(1)

\* the elements of a sequence
Range(list) == {list[i] : i \in 1..Len(list)}

\* Set.prototype.add: a Set keeps its elements in insertion order
SetAdd(set, v) == IF v \in Range(set) THEN set ELSE Append(set, v)

\* every element of list added to set, in order: an element is appended
\* where it is absent from the set and from the list before it
SetAddAll(set, list) ==
  LET indexed == [i \in 1..Len(list) |-> <<i, list[i]>>]
      fresh == SelectSeq(indexed,
                         LAMBDA e : /\ e[2] \notin Range(set)
                                    /\ \A j \in 1..(e[1] - 1) :
                                         list[j] # e[2])
  IN set \o [k \in 1..Len(fresh) |-> fresh[k][2]]

\* --------------------------------------------------- parseCSV, toExtSet
\* input.split(",").map(s => s.trim()).filter(Boolean)
parseCSV(input) ==
  IF input = <<>> THEN <<>>
  ELSE LET parts == SplitOn(input, ",")
       IN FilterBoolean([i \in 1..Len(parts) |-> Trim(parts[i])])

\* e.startsWith(".") ? e.toLowerCase() : `.${e.toLowerCase()}`
DotExt(e) ==
  IF StartsWith(e, <<".">>) THEN LowerCase(e) ELSE <<".">> \o LowerCase(e)

toExtSet(exts) == SetAddAll(<<>>, [i \in 1..Len(exts) |-> DotExt(exts[i])])

\* "If no extensions specified, use common defaults"
DefaultExtensions ==
  <<<<"j", "s">>,
    <<"j", "s", "x">>,
    <<"t", "s">>,
    <<"t", "s", "x">>,
    <<"m", "j", "s">>,
    <<"c", "j", "s">>,
    <<"p", "y">>,
    <<"r", "b">>,
    <<"g", "o">>,
    <<"j", "a", "v", "a">>,
    <<"c", "p", "p">>,
    <<"c">>,
    <<"h">>,
    <<"r", "s">>,
    <<"s", "w", "i", "f", "t">>,
    <<"k", "t">>,
    <<"s", "c", "a", "l", "a">>,
    <<"p", "h", "p">>,
    <<"v", "u", "e">>,
    <<"s", "v", "e", "l", "t", "e">>,
    <<"a", "s", "t", "r", "o">>,
    <<"c", "s", "s">>,
    <<"s", "c", "s", "s">>,
    <<"l", "e", "s", "s">>,
    <<"j", "s", "o", "n">>,
    <<"y", "a", "m", "l">>,
    <<"y", "m", "l">>,
    <<"t", "o", "m", "l">>,
    <<"x", "m", "l">>,
    <<"m", "d">>,
    <<"m", "d", "x">>,
    <<"t", "x", "t">>,
    <<"s", "h">>,
    <<"b", "a", "s", "h">>,
    <<"z", "s", "h">>,
    <<"f", "i", "s", "h">>,
    <<"s", "q", "l">>,
    <<"g", "r", "a", "p", "h", "q", "l">>,
    <<"g", "q", "l">>>>

\* ------------------------------------------------------ parseConfigFile
\* trimmed === '[search]' || trimmed === '[strings]'
SearchHeaders ==
  {<<"[", "s", "e", "a", "r", "c", "h", "]">>,
   <<"[", "s", "t", "r", "i", "n", "g", "s", "]">>}

\* trimmed === '[extensions]' || trimmed === '[include]'
ExtensionsHeaders ==
  {<<"[", "e", "x", "t", "e", "n", "s", "i", "o", "n", "s", "]">>,
   <<"[", "i", "n", "c", "l", "u", "d", "e", "]">>}

\* trimmed === '[exclude]' || trimmed === '[exclude-extensions]' ||
\* trimmed === '[ignore]'
ExcludeHeaders ==
  {<<"[", "e", "x", "c", "l", "u", "d", "e", "]">>,
   <<"[", "e", "x", "c", "l", "u", "d", "e", "-", "e", "x", "t", "e", "n", "s", "i", "o", "n", "s", "]">>,
   <<"[", "i", "g", "n", "o", "r", "e", "]">>}

\* the loop over content.split('\n') of a config file that could be read
parseConfigFile(text) ==
  LET ls == SplitLines(text)
      RECURSIVE go(_, _, _)
      go(i, currentSection, config) ==
        IF i > Len(ls) THEN config
        ELSE LET trimmed == Trim(ls[i])
             IN IF trimmed = <<>> \/ StartsWith(trimmed, <<"#">>)
                THEN go(i + 1, currentSection, config)
                ELSE IF trimmed \in SearchHeaders
                THEN go(i + 1, "search", config)
                ELSE IF trimmed \in ExtensionsHeaders
                THEN go(i + 1, "extensions", config)
                ELSE IF trimmed \in ExcludeHeaders
                THEN go(i + 1, "exclude", config)
                ELSE IF currentSection # "none"
                THEN go(i + 1, currentSection,
                        [config EXCEPT ![currentSection] = Append(@, trimmed)])
                ELSE go(i + 1, currentSection, config)
  IN go(1, "none", [search |-> <<>>, extensions |-> <<>>, exclude |-> <<>>])

\* process.exit(1) of parseConfigFile's catch
ConfigErrorExit == 1

\* ------------------------------------------------- main: the option lists
\* the value mri gives a string flag: absent (no value), the string of a flag
\* given once, the array of a flag given several times.  "if (!value)
\* return []" drops the absent flag and the empty string.
normalizeStrings(value) ==
  IF Len(value) = 1 /\ value[1] = <<>> THEN <<>> ELSE value

\* [...normalizeStrings(parsed.strings), ...normalizeStrings(parsed.s)]: s is
\* an alias of strings, so mri gives both keys the value of the flag
CliStrings(av) == normalizeStrings(av.s) \o normalizeStrings(av.s)

\* [...normalizeStrings(parsed["exclude-strings"]),
\*  ...normalizeStrings(parsed.S)].filter(Boolean)
CliExcludeStrings(av) ==
  FilterBoolean(normalizeStrings(av.S) \o normalizeStrings(av.S))

\* parsed.extensions || parsed.e, each value through parseCSV
CliExtensions(av) == Flatten([i \in 1..Len(av.e) |-> parseCSV(av.e[i])])

\* "If it looks like an extension, convert to gitignore pattern"
ExcludeToPattern(excl) ==
  IF ~Includes(excl, "/") /\ ~Includes(excl, "*")
  THEN <<"*", "*", "/", "*", ".">>
       \o (IF StartsWith(excl, <<".">>) THEN Tail(excl) ELSE excl)
  ELSE excl

\* the loop "for (const excl of excludeList)" over the values of -x
CliExcludePatterns(av) ==
  LET excludeList == Flatten([i \in 1..Len(av.x) |-> parseCSV(av.x[i])])
  IN [i \in 1..Len(excludeList) |-> ExcludeToPattern(excludeList[i])]

\* "If no extensions specified, use common defaults"
WithDefaultExtensions(exts) ==
  IF Len(exts) = 0 THEN toExtSet(DefaultExtensions) ELSE exts

\* strings = config.search; strings.push(...) of the -s flags
MergeStrings(search, cli) == search \o cli

\* strings, excludeStrings, extensions and excludePatterns as main() has
\* them after "strings = strings.filter(Boolean)" and the defaults; config is
\* what parseConfigFile returned, or no config file
OptionsOf(av, config) ==
  IF config # <<>>
  THEN [strings |-> FilterBoolean(MergeStrings(config[1].search,
                                               CliStrings(av))),
        excludeStrings |-> CliExcludeStrings(av),
        extensions |->
          WithDefaultExtensions(SetAddAll(toExtSet(config[1].extensions),
                                          toExtSet(CliExtensions(av)))),
        excludePatterns |-> config[1].exclude \o CliExcludePatterns(av)]
  ELSE [strings |-> FilterBoolean(FilterBoolean(CliStrings(av))),
        excludeStrings |-> CliExcludeStrings(av),
        extensions |-> WithDefaultExtensions(toExtSet(CliExtensions(av))),
        excludePatterns |-> CliExcludePatterns(av)]

\* the config file of -f as parseConfigFile returns it
ConfigOf(av) ==
  IF av.f = <<>> THEN <<>> ELSE <<parseConfigFile(av.f[1].text)>>

\* (variant: a run without search strings is refused as well)
OptionsAreFatalWithoutStrings(av) ==
  \/ av.f # <<>> /\ ~av.f[1].readable
  \/ /\ FilterBoolean(av.s) = <<>>
     /\ av.f = <<>> \/ parseConfigFile(av.f[1].text).search = <<>>

\* what ends the run before discovery: fs.readFile of the config file
\* throws
OptionsAreFatal(av) == av.f # <<>> /\ ~av.f[1].readable

\* main() from "let strings" to the defaults of the extensions; an
\* unreadable config file ends the run in parseConfigFile
ParseOptions ==
  /\ stage = "options"
  /\ IF OptionsAreFatal(argv)
     THEN /\ exitCode' = <<ConfigErrorExit>>
          /\ stage' = "exited"
          /\ UNCHANGED <<strings, excludeStrings, caseSensitive, contextLines,
                         extensions, excludePatterns, pc>>
     ELSE /\ LET options == OptionsOf(argv, ConfigOf(argv))
             IN /\ strings' = options.strings
                /\ excludeStrings' = options.excludeStrings
                /\ extensions' = options.extensions
                /\ excludePatterns' = options.excludePatterns
          /\ caseSensitive' = argv.C
          /\ contextLines' = IF argv.l = <<>> THEN 0 ELSE argv.l[1]
          /\ stage' = "compile"
          /\ pc' = "compile"
          /\ UNCHANGED exitCode
  /\ UNCHANGED <<content, fileSize, readable, readableAtEmit, pattern,
                 excludePattern, fileMatched, scan, merge, section, warned,
                 argv, tree, candidates, filteredCandidates, matched, fi,
                 listing, sections, fileSizes, warnings, reads, written,
                 summary, totalMatchCount, totalWindowCount>>
  /\ UNCHANGED concept

\* ------------------------------------------------- glob and Minimatch
\* the patterns the program builds: literal characters, "*" inside a path
\* segment and the segment "**"
\* pat from index i on matches name from index j on
RECURSIVE WildMatch(_, _, _, _)
WildMatch(pat, i, name, j) ==
  IF i > Len(pat) THEN j > Len(name)
  ELSE IF pat[i] = "*"
  THEN \E k \in j..(Len(name) + 1) : WildMatch(pat, i + 1, name, k)
  ELSE /\ j <= Len(name)
       /\ pat[i] = name[j]
       /\ WildMatch(pat, i + 1, name, j + 1)

\* one segment of a pattern against one segment of a path; without the dot
\* option a wildcard does not match a leading "."
SegmentMatches(pat, name, dot) ==
  /\ dot \/ ~StartsWith(name, <<".">>) \/ StartsWith(pat, <<".">>)
  /\ WildMatch(pat, 1, name, 1)

\* the segments ps from i on match the segments ns from j on
RECURSIVE PathMatches(_, _, _, _, _)
PathMatches(ps, i, ns, j, dot) ==
  IF i > Len(ps) THEN j > Len(ns)
  ELSE IF ps[i] = <<"*", "*">>
  THEN \/ PathMatches(ps, i + 1, ns, j, dot)
       \/ /\ j <= Len(ns)
          /\ dot \/ ~StartsWith(ns[j], <<".">>)
          /\ PathMatches(ps, i, ns, j + 1, dot)
  ELSE /\ j <= Len(ns)
       /\ SegmentMatches(ps[i], ns[j], dot)
       /\ PathMatches(ps, i + 1, ns, j + 1, dot)

\* the pattern matches the relative path
GlobMatches(pat, path, dot, nocase) ==
  LET p == IF nocase THEN LowerCase(pat) ELSE pat
      n == IF nocase THEN LowerCase(path) ELSE path
  IN PathMatches(SplitOn(p, "/"), 1, SplitOn(n, "/"), 1, dot)

\* ------------------------------------------------------ main: discovery
\* the fixed part of the ignore list handed to glob
BuiltinIgnore ==
  <<<<"*", "*", "/", "n", "o", "d", "e", "_", "m", "o", "d", "u", "l", "e", "s", "/", "*", "*">>,
    <<"*", "*", "/", ".", "g", "i", "t", "/", "*", "*">>,
    <<"*", "*", "/", "d", "i", "s", "t", "/", "*", "*">>,
    <<"*", "*", "/", "b", "u", "i", "l", "d", "/", "*", "*">>,
    <<"*", "*", "/", ".", "n", "e", "x", "t", "/", "*", "*">>,
    <<"*", "*", "/", "c", "o", "v", "e", "r", "a", "g", "e", "/", "*", "*">>,
    <<"*", "*", "/", ".", "c", "a", "c", "h", "e", "/", "*", "*">>,
    <<"*", "*", "/", "t", "m", "p", "/", "*", "*">>,
    <<"*", "*", "/", "t", "e", "m", "p", "/", "*", "*">>,
    <<"*", "*", "/", "*", ".", "l", "o", "g">>,
    <<"*", "*", "/", ".", "D", "S", "_", "S", "t", "o", "r", "e">>,
    <<"*", "*", "/", "T", "h", "u", "m", "b", "s", ".", "d", "b">>>>

\* ext.startsWith('.') ? ext.slice(1) : ext, then `**/*.${cleanExt}`
ExtensionGlob(ext) ==
  <<"*", "*", "/", "*", ".">>
  \o (IF StartsWith(ext, <<".">>) THEN Tail(ext) ELSE ext)

\* the path of every file of the tree, in the order glob walks them
TreePaths == [i \in 1..Len(tree) |-> tree[i].path]

\* await glob(pattern, { cwd, ignore: [...], absolute: true, dot: false })
GlobFiles(pat, ignore) ==
  SelectSeq(TreePaths,
            LAMBDA p : /\ GlobMatches(pat, p, FALSE, FALSE)
                       /\ \A k \in 1..Len(ignore) :
                            ~GlobMatches(ignore[k], p, TRUE, FALSE))

\* "for (const file of files) candidates.add(file)"
Accumulate(set, files) == SetAddAll(set, files)

\* the loops over the extensions of the one root "."
DiscoverCandidates(exts, userIgnore) ==
  LET RECURSIVE go(_, _)
      go(i, acc) ==
        IF i > Len(exts) THEN acc
        ELSE go(i + 1,
                Accumulate(acc, GlobFiles(ExtensionGlob(exts[i]),
                                          BuiltinIgnore \o userIgnore)))
  IN go(1, <<>>)

\* /[\*\?\[\]\{\}!]/.test(s)
hasGlobChars(s) ==
  \E i \in 1..Len(s) : s[i] \in {"*", "?", "[", "]", "{", "}", "!"}

\* p.replace(/^[./]+/, '')
StripLeadingDotsAndSlashes(p) ==
  LET RECURSIVE go(_)
      go(t) == IF t # <<>> /\ Head(t) \in {".", "/"} THEN go(Tail(t)) ELSE t
  IN go(p)

\* expandPattern(p)
expandPattern(p) ==
  IF hasGlobChars(p) THEN <<p>>
  ELSE LET norm == StripLeadingDotsAndSlashes(p)
       IN SetAddAll(<<>>, <<norm,
                            <<"*", "*", "/">> \o norm,
                            norm \o <<"/", "*", "*">>,
                            <<"*", "*", "/">> \o norm \o <<"/", "*", "*">> >>)

\* includeExpanded and ignoreExpanded: the values of a flag through parseCSV
\* and expandPattern
ExpandedPatterns(values) ==
  LET list == Flatten([i \in 1..Len(values) |-> parseCSV(values[i])])
  IN Flatten([i \in 1..Len(list) |-> expandPattern(list[i])])

\* some Minimatch of the list matches the path ({ dot: true, nocase:
\* !caseSensitive })
SomeMatcherMatches(patterns, rel) ==
  \E k \in 1..Len(patterns) :
    GlobMatches(patterns[k], rel, TRUE, ~caseSensitive)

\* "Apply include/ignore matchers on repo-relative paths"
FilterCandidates(cands) ==
  LET includeExpanded == ExpandedPatterns(argv.include)
      ignoreExpanded == ExpandedPatterns(argv.ignore)
  IN SelectSeq(cands,
               LAMBDA p :
                 /\ Len(includeExpanded) = 0
                    \/ SomeMatcherMatches(includeExpanded, p)
                 /\ ~(Len(ignoreExpanded) > 0
                      /\ SomeMatcherMatches(ignoreExpanded, p)))

\* process.exit(2) of "if (!candidates.size)"
NoCandidatesExit == 2

\* 1) Discover files, "if (!candidates.size) process.exit(2)", then the
\* include/ignore matchers
Discover ==
  /\ stage = "compile"
  /\ pc = "filter"
  /\ pc' = "idle"
  /\ candidates' = DiscoverCandidates(extensions, excludePatterns)
  /\ IF Len(candidates') = 0
     THEN /\ exitCode' = <<NoCandidatesExit>>
          /\ stage' = "exited"
          /\ UNCHANGED filteredCandidates
     ELSE /\ filteredCandidates' = FilterCandidates(candidates')
          /\ stage' = "filter"
          /\ UNCHANGED exitCode
  /\ UNCHANGED <<inputs, pattern, excludePattern, fileMatched, scan,
                 merge, section, warned, argv, tree, extensions,
                 excludePatterns, matched, fi, listing, sections, fileSizes,
                 warnings, reads, written, summary,
                 totalMatchCount, totalWindowCount>>
  /\ UNCHANGED concept

\* ------------------------------------------- main: the content filter loop
\* the file of the tree that has the path
FileOf(path) == tree[CHOOSE i \in 1..Len(tree) : tree[i].path = path]

\* "for (const p of filteredCandidates)": the loop takes the next candidate;
\* what stat and readFile will say of it is what the tree holds
VisitCandidate ==
  /\ stage = "filter"
  /\ pc = "idle"
  /\ fi < Len(filteredCandidates)
  /\ LET file == FileOf(filteredCandidates[fi + 1])
     IN /\ content' = file.content
        /\ fileSize' = file.fileSize
        /\ readable' = file.readable
        /\ readableAtEmit' = file.readableAtEmit
  /\ fileMatched' = FALSE
  /\ pc' = "filter"
  /\ UNCHANGED <<strings, excludeStrings, caseSensitive, contextLines,
                 pattern, excludePattern, scan, merge, section, warned, job>>
  /\ UNCHANGED concept

\* fs.readFile of the content filter was called and returned: a pattern
\* exists, stat succeeded and the size passed the guard
FilterReadsFile ==
  /\ pattern # <<>> \/ excludePattern # <<>>
  /\ readable
  /\ fileSize <= MaxFileBytes

\* (variant: the newest match goes first)
PushMatchedFirst(list, path) == <<path>> \o list

\* matched.push(resolvedPath)
PushMatched(list, path) == Append(list, path)

\* the end of the loop body: the candidate the filter selected is pushed to
\* matched
CollectCandidate ==
  /\ stage = "filter"
  /\ pc \in {"emit", "done"}
  /\ matched' = IF fileMatched
                THEN PushMatched(matched, filteredCandidates[fi + 1])
                ELSE matched
  /\ reads' = IF FilterReadsFile
              THEN reads \cup {filteredCandidates[fi + 1]}
              ELSE reads
  /\ fi' = fi + 1
  /\ pc' = "idle"
  /\ UNCHANGED <<inputs, pattern, excludePattern, fileMatched, scan, merge,
                 section, warned, argv, tree, stage, extensions,
                 excludePatterns, candidates, filteredCandidates, listing,
                 sections, fileSizes, warnings, exitCode, written, summary,
                 totalMatchCount, totalWindowCount>>
  /\ UNCHANGED concept

\* (variant: the exit status of the no-candidates outcome again)
NoMatchesExitAsNoCandidates == NoCandidatesExit

\* process.exit(3) of "if (!matched.length)"
NoMatchesExit == 3

\* process.exit(0) of "if (parsed.preview)"
PreviewExit == 0

\* the filter loop is over: "if (!matched.length) process.exit(3)", the
\* preview, and relativePaths = matched.map(p => path.relative(cwd, p))
CheckMatched ==
  /\ stage = "filter"
  /\ pc = "idle"
  /\ fi = Len(filteredCandidates)
  /\ IF Len(matched) = 0
     THEN /\ exitCode' = <<NoMatchesExit>>
          /\ stage' = "exited"
          /\ UNCHANGED <<listing, fi>>
     ELSE IF argv.preview
     THEN /\ exitCode' = <<PreviewExit>>
          /\ stage' = "exited"
          /\ UNCHANGED <<listing, fi>>
     ELSE /\ listing' = matched
          /\ fi' = 0
          /\ stage' = "emit"
          /\ UNCHANGED exitCode
  /\ UNCHANGED <<inputs, pc, pattern, excludePattern, fileMatched, scan,
                 merge, section, warned, argv, tree, extensions,
                 excludePatterns, candidates, filteredCandidates, matched,
                 sections, fileSizes, warnings, reads, written, summary,
                 totalMatchCount, totalWindowCount>>
  /\ UNCHANGED concept

\* --------------------------------------------------- main: the output loop
\* the sum of a sequence of numbers
Sum(list) ==
  LET RECURSIVE go(_)
      go(i) == IF i > Len(list) THEN 0 ELSE list[i] + go(i + 1)
  IN go(1)

\* String(n).length for n >= 0
Digits(n) ==
  LET RECURSIVE go(_)
      go(k) == IF k < 10 THEN 1 ELSE 1 + go(k \div 10)
  IN go(n)

\* !toStdout && !outputFile
summaryOnly == argv.out = "none"

\* parsed.style || "xml"
outputStyle == argv.style

\* path.extname(relPath): from the last "." of the base name on, empty when
\* the base name has no "." after its first character
ExtName(path) ==
  LET segs == SplitOn(path, "/")
      base == segs[Len(segs)]
      dots == {i \in 2..Len(base) : base[i] = "."}
  IN IF dots = {} THEN <<>>
     ELSE SubSeq(base, CHOOSE i \in dots : \A j \in dots : j <= i, Len(base))

\* path.extname(relPath).slice(1) || 'txt'
FenceExt(path) ==
  IF Len(ExtName(path)) > 1 THEN Tail(ExtName(path)) ELSE <<"t", "x", "t">>

\* `${String(lineNum).padStart(6, ' ')}│ ${line}\n`
FormattedLineLength(lineNum, line) == Max2(6, Digits(lineNum)) + 2 + Len(line) + 1

\* '\n  ...\n'
WindowSeparatorLength == 7

\* formatContextWindows(windows, relPath).length
FormattedLength(ws) ==
  Sum([w \in 1..Len(ws) |->
         (IF w > 1 THEN WindowSeparatorLength ELSE 0)
         + Sum([k \in 1..Len(ws[w].lines) |->
                  FormattedLineLength(ws[w].startLine + k - 1,
                                      ws[w].lines[k])])])

\* the characters of the templates of fileOutput around their placeholders
XmlWholeFrame == 25

XmlWindowsFrame == 46

MarkdownWholeFrame == 16

MarkdownWindowsFrame == 54

\* windows.reduce((sum, w) => sum + w.matches.length, 0)
MatchCount(ws) == Sum([w \in 1..Len(ws) |-> Len(ws[w].matches)])

\* fileOutput.length of the file the loop has just worked on
FileOutputLength(path) ==
  IF section = "whole"
  THEN IF outputStyle = "xml"
       THEN XmlWholeFrame + Len(path) + Len(content)
       ELSE MarkdownWholeFrame + Len(path) + Len(FenceExt(path))
            + Len(content)
  ELSE IF section = "windows"
  THEN IF outputStyle = "xml"
       THEN XmlWindowsFrame + Len(path) + Digits(MatchCount(merged))
            + Digits(Len(merged)) + FormattedLength(merged)
       ELSE MarkdownWindowsFrame + Len(path) + Digits(MatchCount(merged))
            + Digits(Len(merged)) + Len(FenceExt(path))
            + FormattedLength(merged)
  ELSE 0

\* (variant: the estimate is rounded up)
TokensOfCeil(chars) == (chars + 3) \div 4

\* Math.round(chars / 4): halves round up
TokensOf(chars) == (chars + 2) \div 4

\* "for (const [index, filePath] of matched.entries())": the loop takes the
\* next matched file; "try { const content = await fs.readFile(...)"
OpenMatched ==
  /\ stage = "emit"
  /\ pc = "idle"
  /\ fi < Len(matched)
  /\ LET file == FileOf(matched[fi + 1])
     IN /\ content' = file.content
        /\ fileSize' = file.fileSize
        /\ readable' = file.readable
        /\ readableAtEmit' = file.readableAtEmit
  /\ fileMatched' = TRUE
  /\ lines' = <<>>
  /\ lineIndex' = 0
  /\ lastIndex' = 0
  /\ matches' = <<>>
  /\ windows' = <<>>
  /\ wi' = 0
  /\ current' = <<>>
  /\ merged' = <<>>
  /\ section' = "none"
  /\ warned' = FALSE
  /\ pc' = "emit"
  /\ UNCHANGED <<strings, excludeStrings, caseSensitive, contextLines,
                 pattern, excludePattern, job>>
  /\ UNCHANGED concept

\* (variant: a file that cannot be read ends the loop)
NextIndexStopsOnWarning(i) == IF warned THEN Len(matched) ELSE i + 1

\* the loop goes on with the next file, whatever became of this one
NextIndex(i) == i + 1

\* the end of the loop body: "if (fileOutput)" the section is appended to
\* the output and its size is kept; the catch has printed the warning
CloseMatched ==
  /\ stage = "emit"
  /\ pc = "done"
  /\ LET path == matched[fi + 1]
         size == FileOutputLength(path)
     IN /\ sections' =
             IF section # "none" /\ ~summaryOnly
             THEN Append(sections,
                         [path |-> path, kind |-> section, size |-> size,
                          matches |-> IF section = "windows"
                                      THEN MatchCount(merged) ELSE 0,
                          windows |-> IF section = "windows"
                                      THEN Len(merged) ELSE 0])
             ELSE sections
        /\ fileSizes' =
             IF section # "none"
             THEN Append(fileSizes, [path |-> path, size |-> size,
                                     tokens |-> TokensOf(size)])
             ELSE fileSizes
        /\ warnings' = IF warned THEN Append(warnings, path) ELSE warnings
        /\ reads' = IF readableAtEmit THEN reads \cup {path} ELSE reads
  /\ totalWindowCount' =
       IF section = "windows" THEN totalWindowCount + Len(merged)
       ELSE totalWindowCount
  /\ totalMatchCount' =
       IF section = "windows" THEN totalMatchCount + MatchCount(merged)
       ELSE totalMatchCount
  /\ fi' = NextIndex(fi)
  /\ pc' = "idle"
  /\ UNCHANGED <<inputs, pattern, excludePattern, fileMatched, scan, merge,
                 section, warned, argv, tree, stage, extensions,
                 excludePatterns, candidates, filteredCandidates, matched,
                 listing, exitCode, written, summary>>
  /\ UNCHANGED concept

\* ------------------------------------------- main: the output and summary
\* the characters of the two header templates around their placeholders
XmlHeaderFrame == 782

MarkdownHeaderFrame == 83

\* `\n- Context lines: ${contextLines} lines around each match`
XmlContextNoteFrame == 42

\* `\n\n**Context:** ${contextLines} lines around each match`
MarkdownContextNoteFrame == 39

\* `</files>`
XmlFooterLength == 8

\* relativePaths.join('\n').length
JoinedLength(list) ==
  Sum([i \in 1..Len(list) |-> Len(list[i])])
  + (IF Len(list) > 0 THEN Len(list) - 1 ELSE 0)

\* the length of the header written before the loop
HeaderLength ==
  IF outputStyle = "xml"
  THEN XmlHeaderFrame + Digits(Len(matched))
       + (IF EffectiveContextLines # 0
          THEN XmlContextNoteFrame + Digits(EffectiveContextLines) ELSE 0)
       + JoinedLength(listing)
  ELSE MarkdownHeaderFrame + Digits(Len(matched))
       + (IF EffectiveContextLines # 0
          THEN MarkdownContextNoteFrame + Digits(EffectiveContextLines)
          ELSE 0)

\* output.length after the loop: nothing in a summary-only run
OutputLength ==
  IF summaryOnly THEN 0
  ELSE HeaderLength
       + Sum([i \in 1..Len(sections) |-> sections[i].size])
       + (IF outputStyle = "xml" THEN XmlFooterLength ELSE 0)

\* (!toStdout && !outputFile && fileSizes.length)
\*   ? fileSizes.reduce((sum, f) => sum + f.size, 0) : output.length
TotalChars ==
  IF summaryOnly /\ Len(fileSizes) > 0
  THEN Sum([i \in 1..Len(fileSizes) |-> fileSizes[i].size])
  ELSE OutputLength

\* fileSizes.sort((a, b) => b.tokens - a.tokens): the sort is stable and in
\* place
SortByTokens(list) ==
  LET RECURSIVE insert(_, _)
      insert(sorted, f) ==
        IF sorted = <<>> THEN <<f>>
        ELSE IF Head(sorted).tokens >= f.tokens
        THEN <<Head(sorted)>> \o insert(Tail(sorted), f)
        ELSE <<f>> \o sorted
      RECURSIVE go(_, _)
      go(i, acc) == IF i > Len(list) THEN acc
                    ELSE go(i + 1, insert(acc, list[i]))
  IN go(1, <<>>)

\* .slice(0, 10)
TopFilesShown == 10

\* the output is written, then the Pack Summary and the top files are
\* printed
Finish ==
  /\ stage = "emit"
  /\ pc = "idle"
  /\ fi = Len(matched)
  /\ written' = argv.out
  /\ fileSizes' = SortByTokens(fileSizes)
  /\ summary' =
       <<[totalFiles |-> Len(matched),
          totalChars |-> TotalChars,
          totalTokens |-> TokensOf(TotalChars),
          totalMatches |-> totalMatchCount,
          totalWindows |-> totalWindowCount,
          topFiles |-> SubSeq(fileSizes', 1,
                              Min2(TopFilesShown, Len(fileSizes')))]>>
  /\ stage' = "done"
  /\ UNCHANGED <<inputs, pc, pattern, excludePattern, fileMatched, scan,
                 merge, section, warned, argv, tree, extensions,
                 excludePatterns, candidates, filteredCandidates, matched, fi,
                 listing, sections, warnings, reads, exitCode,
                 totalMatchCount, totalWindowCount>>
  /\ UNCHANGED concept

\* ------------------------------------------------- the runs over a tree
\* the largest number of files under the root
MaxFiles == 2

\* a file of the tree: beyond 0 is a file as long as its text, beyond 1 a
\* file of exactly 10 MiB, beyond 2 one byte more
File(path, text, beyond, canRead, canReadAtEmit) ==
  [path |-> path, content |-> text,
   fileSize |-> IF beyond = 0 THEN Len(text) ELSE MaxFileBytes + beyond - 1,
   readable |-> canRead, readableAtEmit |-> canReadAtEmit]

\* the files a tree is made of, in the order glob walks them: plain files
\* with the literals "a" and "b", a file that vanishes before the output
\* stage, a file larger than 10 MiB, a file of exactly 10 MiB, a file that
\* cannot be read, an empty file and a log file
FilePool ==
  <<File(<<"a", ".", "b", ".", "c">>, <<"b", "\n", "a">>, 0, TRUE, TRUE),
    File(<<"a", ".", "c">>, <<"a">>, 0, TRUE, TRUE),
    File(<<"b", ".", "c">>, <<"a">>, 0, TRUE, FALSE),
    File(<<"c", ".", "p", "y">>, <<"a", "\n", "\n", "a">>, 0, TRUE, TRUE),
    File(<<"d", ".", "c">>, <<"a">>, 2, TRUE, TRUE),
    File(<<"e", ".", "c">>, <<"a">>, 1, TRUE, TRUE),
    File(<<"g", ".", "c">>, <<"a">>, 0, FALSE, FALSE),
    File(<<"k", ".", "c">>, <<>>, 0, TRUE, TRUE),
    File(<<"n", ".", "l", "o", "g">>, <<"a">>, 0, TRUE, TRUE)>>

\* the files of the pool at the places of the set, in the order of the pool
Pick(places) ==
  LET RECURSIVE go(_)
      go(i) == IF i > Len(FilePool) THEN <<>>
               ELSE (IF i \in places THEN <<FilePool[i]>> ELSE <<>>)
                    \o go(i + 1)
  IN go(1)

Trees ==
  {Pick(places) : places \in {ps \in SUBSET (1..Len(FilePool)) :
                                Cardinality(ps) <= MaxFiles}}

\* a command line: the values of -s, -S, -e and -x in the order typed, -l,
\* where the output goes and its style; the other flags are not given
Argv(s, S, e, x, l, out, style) ==
  [s |-> s, S |-> S, e |-> e, x |-> x, include |-> <<>>, ignore |-> <<>>,
   l |-> l, C |-> FALSE, f |-> <<>>, preview |-> FALSE, style |-> style,
   out |-> out]

\* -e "c,py"
ExtCAndPy == <<<<"c", ",", "p", "y">>>>

\* with and without include and exclude literals, without -l, with -l 0 and
\* with -l 1
FilterArgvs ==
  {Argv(s, S, ExtCAndPy, <<>>, l, "file", "xml") :
     s \in {<<>>, <<<<"a">>>>},
     S \in {<<>>, <<<<"b">>>>},
     l \in {<<>>, <<0>>, <<1>>}}

\* every destination and style of the output
OutputArgvs ==
  {Argv(s, <<>>, ExtCAndPy, <<>>, l, out, style) :
     s \in {<<>>, <<<<"a">>>>},
     l \in {<<>>, <<1>>},
     out \in {"none", "file", "stdout"},
     style \in {"xml", "markdown"}}

\* the text of a config file from its lines
ConfigText(ls) ==
  LET RECURSIVE go(_)
      go(i) == IF i > Len(ls) THEN <<>> ELSE ls[i] \o <<"\n">> \o go(i + 1)
  IN go(1)

HeaderSearch == <<"[", "s", "e", "a", "r", "c", "h", "]">>

HeaderExtensions == <<"[", "e", "x", "t", "e", "n", "s", "i", "o", "n", "s", "]">>

HeaderExclude == <<"[", "e", "x", "c", "l", "u", "d", "e", "]">>

\* -f of a config file with the text
WithConfig(av, canRead, text) ==
  [av EXCEPT !.f = <<[readable |-> canRead, text |-> text]>>]

NoFlags == Argv(<<>>, <<>>, <<>>, <<>>, <<>>, "file", "xml")

\* command lines with a config file, and the same values given as flags
ConfigArgvs ==
  {WithConfig(Argv(<<<<"a">>>>, <<>>, ExtCAndPy, <<>>, <<>>, "file", "xml"),
              FALSE, <<>>),
   WithConfig(NoFlags, TRUE,
              ConfigText(<<HeaderSearch, <<"a">>, HeaderExtensions, <<"c">>>>)),
   Argv(<<<<"a">>>>, <<>>, <<<<"c">>>>, <<>>, <<>>, "file", "xml"),
   WithConfig(NoFlags, TRUE,
              ConfigText(<<<<"#", " ", "p", "a", "c", "k", "x">>, HeaderSearch, <<" ", " ", "a", " ">>, <<>>,
                           HeaderExclude, <<"p", "y">>>>)),
   Argv(<<<<"a">>>>, <<>>, <<>>, <<<<"p", "y">>>>, <<>>, "file", "xml"),
   WithConfig(NoFlags, TRUE,
              ConfigText(<<HeaderSearch, <<"a">>, HeaderExclude, <<"*", "*", "/", "*", ".", "p", "y">>>>)),
   Argv(<<<<"a">>>>, <<>>, <<>>, <<<<"*", "*", "/", "*", ".", "p", "y">>>>, <<>>, "file", "xml"),
   WithConfig(Argv(<<<<"b">>>>, <<<<"a">>>>, <<<<"P", "Y">>>>, <<<<".", "c">>>>, <<1>>, "stdout",
                   "markdown"),
              TRUE, ConfigText(<<HeaderExtensions, <<"p", "y">>, <<"c">>>>)),
   WithConfig(NoFlags, TRUE, ConfigText(<<HeaderExtensions, <<"m", "d">>>>)),
   WithConfig(NoFlags, TRUE, <<>>)}

\* the other flags: an empty -s, two -s, --preview, -C, --include, --ignore,
\* extensions that are given twice or overlap
FlagArgvs ==
  {Argv(<<<<>>>>, <<>>, ExtCAndPy, <<>>, <<1>>, "file", "xml"),
   Argv(<<<<>>, <<"a">>>>, <<>>, ExtCAndPy, <<>>, <<1>>, "file", "xml"),
   Argv(<<<<"b">>, <<"a">>>>, <<>>, ExtCAndPy, <<>>, <<2>>, "none", "xml"),
   [Argv(<<<<"a">>>>, <<>>, ExtCAndPy, <<>>, <<>>, "file", "xml")
      EXCEPT !.preview = TRUE],
   [Argv(<<<<"A">>>>, <<>>, ExtCAndPy, <<>>, <<>>, "file", "xml")
      EXCEPT !.C = TRUE],
   [Argv(<<<<"A">>>>, <<<<"B">>>>, ExtCAndPy, <<>>, <<>>, "file", "xml")
      EXCEPT !.C = TRUE],
   [Argv(<<>>, <<>>, ExtCAndPy, <<>>, <<>>, "file", "xml")
      EXCEPT !.include = <<<<"A", ".", "C", ",", " ", "c", ".", "p", "y">>>>],
   [Argv(<<<<"a">>>>, <<>>, ExtCAndPy, <<>>, <<>>, "file", "xml")
      EXCEPT !.ignore = <<<<"*", ".", "b", ".", "c">>>>],
   Argv(<<<<"a">>>>, <<>>, <<<<"c", ",", " ", "C">>, <<"b", ".", "c">>>>, <<>>, <<>>, "file", "xml"),
   Argv(<<<<"a">>>>, <<>>, <<<<"p", "y">>, <<"c">>>>, <<<<".", "p", "y", ",", " ", "a", ".", "b", ".", "c">>>>, <<>>, "none",
        "markdown")}

\* empty values of -s and -S, alone, beside other values and added to the
\* literals of a config file, one of whose search lines is blank
EmptyLiteralArgvs ==
  LET typed == Argv(<<<<>>, <<"a">>>>, <<<<>>, <<"b">>>>, ExtCAndPy, <<>>,
                    <<1>>, "file", "xml")
      empties == Argv(<<<<>>, <<>>>>, <<<<>>>>, ExtCAndPy, <<>>, <<1>>,
                      "file", "xml")
  IN {typed,
      empties,
      WithConfig(typed, TRUE, ConfigText(<<HeaderSearch, <<"b">>>>)),
      WithConfig(empties, TRUE,
                 ConfigText(<<HeaderSearch, <<" ">>, <<"a">>>>))}

\* include literals that hold a line break: the filter tests the whole
\* content, the scan goes line by line
AcrossLinesArgvs ==
  {Argv(<<<<"a", "\n">>, <<"b">>>>, <<>>, ExtCAndPy, <<>>, <<1>>, out, style) :
     out \in {"none", "file"}, style \in {"xml", "markdown"}}

\* no file is under way
FileIdle ==
  /\ content = <<>>
  /\ fileSize = 0
  /\ readable = TRUE
  /\ readableAtEmit = TRUE
  /\ pattern = <<>>
  /\ excludePattern = <<>>
  /\ fileMatched = FALSE
  /\ lines = <<>>
  /\ lineIndex = 0
  /\ lastIndex = 0
  /\ matches = <<>>
  /\ windows = <<>>
  /\ wi = 0
  /\ current = <<>>
  /\ merged = <<>>
  /\ section = "none"
  /\ warned = FALSE

\* the command line and the tree are those of one of the runs
RunsFrom(argvs) == \E av \in argvs, t \in Trees : argv = av /\ tree = t

InitRun ==
  /\ \/ RunsFrom(FilterArgvs)
     \/ RunsFrom(OutputArgvs)
     \/ RunsFrom(ConfigArgvs)
     \/ RunsFrom(FlagArgvs)
     \/ RunsFrom(EmptyLiteralArgvs)
     \/ RunsFrom(AcrossLinesArgvs)
  /\ strings = <<>>
  /\ excludeStrings = <<>>
  /\ caseSensitive = FALSE
  /\ contextLines = 0
  /\ pc = "idle"
  /\ FileIdle
  /\ stage = "options"
  /\ extensions = <<>>
  /\ excludePatterns = <<>>
  /\ candidates = <<>>
  /\ filteredCandidates = <<>>
  /\ matched = <<>>
  /\ fi = 0
  /\ listing = <<>>
  /\ sections = <<>>
  /\ fileSizes = <<>>
  /\ warnings = <<>>
  /\ reads = {}
  /\ exitCode = <<>>
  /\ written = "none"
  /\ summary = <<>>
  /\ totalMatchCount = 0
  /\ totalWindowCount = 0
  /\ NoConcept

NextRun ==
  \/ ParseOptions
  \/ CompilePatterns
  \/ Discover
  \/ VisitCandidate
  \/ FilterFile
  \/ CollectCandidate
  \/ CheckMatched
  \/ OpenMatched
  \/ EmitFile
  \/ ScanMatch
  \/ ScanNextLine
  \/ BuildWindows
  \/ MergeNext
  \/ ReturnWindows
  \/ WriteSection
  \/ CloseMatched
  \/ Finish

SpecRun == InitRun /\ [][NextRun]_vars

\* ======================================= concept mode (src/src/concept.ts)
\* ------------------------------------------------------- the keyword list
\* array.slice(0, n) for n >= 0
SliceTo(list, n) == SubSeq(list, 1, Min2(n, Len(list)))

\* searchString.toLowerCase().split(/\s+/).filter(w => w.length > 1): the
\* search string is trimmed, so a run of blanks only yields empty words,
\* which the filter drops
SeedTermsOf(text) ==
  SelectSeq(SplitOn(LowerCase(text), " "), LAMBDA w : Len(w) > 1)

\* Number(parsed.keywords) || 10
DefaultKeywords == 10

KeywordsOption(v) == IF v = 0 THEN DefaultKeywords ELSE v

\* Number(parsed['top-files']) || 20
DefaultTopFiles == 20

TopFilesOption(v) == IF v = 0 THEN DefaultTopFiles ELSE v

\* (variant: the ranked terms come first)
KeywordListRankedFirst(seeds, rankedTerms, count) ==
  SliceTo(SetAddAll(<<>>, rankedTerms \o seeds), count)

\* Array.from(new Set([...seedTerms, ...ranked])).slice(0, opts.keywords)
KeywordList(seeds, rankedTerms, count) ==
  SliceTo(SetAddAll(<<>>, seeds \o rankedTerms), count)

\* ------------------------------------------------------------ characters
\* [a-z]
LowerAZ ==
  {"a", "b", "c", "d", "e", "f", "g", "h", "i", "j", "k", "l", "m", "n",
   "o", "p", "q", "r", "s", "t", "u", "v", "w", "x", "y", "z"}

\* [A-Z]
UpperAZ ==
  {"A", "B", "C", "D", "E", "F", "G", "H", "I", "J", "K", "L", "M", "N",
   "O", "P", "Q", "R", "S", "T", "U", "V", "W", "X", "Y", "Z"}

\* \d
DigitChars == {"0", "1", "2", "3", "4", "5", "6", "7", "8", "9"}

\* -------------------------------------------------------- the tokenizer
\* const STOP_WORDS = new Set([...])
STOP_WORDS ==
  {<<"c", "o", "n", "s", "t">>, <<"l", "e", "t">>, <<"v", "a", "r">>,
   <<"f", "u", "n", "c", "t", "i", "o", "n">>,
   <<"r", "e", "t", "u", "r", "n">>, <<"i", "m", "p", "o", "r", "t">>,
   <<"e", "x", "p", "o", "r", "t">>, <<"f", "r", "o", "m">>,
   <<"c", "l", "a", "s", "s">>, <<"n", "e", "w">>, <<"t", "h", "i", "s">>,
   <<"t", "h", "a", "t">>, <<"w", "i", "t", "h">>, <<"f", "o", "r">>,
   <<"w", "h", "i", "l", "e">>, <<"d", "o">>, <<"i", "f">>,
   <<"e", "l", "s", "e">>, <<"s", "w", "i", "t", "c", "h">>,
   <<"c", "a", "s", "e">>, <<"b", "r", "e", "a", "k">>,
   <<"c", "o", "n", "t", "i", "n", "u", "e">>, <<"t", "r", "y">>,
   <<"c", "a", "t", "c", "h">>, <<"f", "i", "n", "a", "l", "l", "y">>,
   <<"t", "h", "r", "o", "w">>, <<"a", "s", "y", "n", "c">>,
   <<"a", "w", "a", "i", "t">>, <<"t", "y", "p", "e", "o", "f">>,
   <<"i", "n", "s", "t", "a", "n", "c", "e", "o", "f">>,
   <<"v", "o", "i", "d">>, <<"n", "u", "l", "l">>,
   <<"u", "n", "d", "e", "f", "i", "n", "e", "d">>, <<"t", "r", "u", "e">>,
   <<"f", "a", "l", "s", "e">>, <<"a", "n", "d">>, <<"o", "r">>,
   <<"n", "o", "t">>, <<"t", "h", "e">>, <<"i", "s">>, <<"a", "r", "e">>,
   <<"w", "a", "s">>, <<"w", "e", "r", "e">>, <<"b", "e", "e", "n">>,
   <<"b", "e", "i", "n", "g">>, <<"h", "a", "v", "e">>, <<"h", "a", "s">>,
   <<"h", "a", "d">>, <<"w", "i", "l", "l">>, <<"w", "o", "u", "l", "d">>,
   <<"c", "o", "u", "l", "d">>, <<"s", "h", "o", "u", "l", "d">>,
   <<"m", "a", "y">>, <<"m", "i", "g", "h", "t">>, <<"m", "u", "s", "t">>,
   <<"c", "a", "n">>, <<"s", "h", "a", "l", "l">>, <<"i", "n">>, <<"o", "n">>,
   <<"a", "t">>, <<"t", "o">>, <<"o", "f">>, <<"b", "y">>, <<"a", "s">>,
   <<"i", "t">>, <<"b", "e">>, <<"a", "n">>, <<"a">>, <<"t", "h", "e", "n">>,
   <<"e", "n", "d">>, <<"b", "e", "g", "i", "n">>,
   <<"s", "t", "a", "t", "i", "c">>, <<"p", "u", "b", "l", "i", "c">>,
   <<"p", "r", "i", "v", "a", "t", "e">>,
   <<"p", "r", "o", "t", "e", "c", "t", "e", "d">>,
   <<"i", "n", "t", "e", "r", "f", "a", "c", "e">>,
   <<"i", "m", "p", "l", "e", "m", "e", "n", "t", "s">>,
   <<"e", "x", "t", "e", "n", "d", "s">>,
   <<"p", "a", "c", "k", "a", "g", "e">>, <<"m", "o", "d", "u", "l", "e">>,
   <<"e", "n", "u", "m">>, <<"u", "s", "e">>, <<"g", "e", "t">>,
   <<"s", "e", "t">>, <<"m", "a", "p">>, <<"l", "i", "s", "t">>,
   <<"d", "a", "t", "a">>, <<"f", "i", "l", "e">>, <<"p", "a", "t", "h">>,
   <<"s", "r", "c">>, <<"d", "i", "s", "t">>, <<"n", "o", "d", "e">>,
   <<"i", "n", "d", "e", "x">>, <<"m", "a", "i", "n">>,
   <<"s", "c", "r", "i", "p", "t">>, <<"s", "c", "r", "i", "p", "t", "s">>,
   <<"n", "a", "m", "e">>, <<"s", "t", "r", "i", "n", "g">>,
   <<"t", "e", "s", "t">>, <<"t", "e", "s", "t", "s">>, <<"e", "n", "v">>,
   <<"c", "h", "a", "n", "n", "e", "l">>, <<"p", "n", "p", "m">>,
   <<"w", "i", "n", "d", "o", "w", "s">>,
   <<"i", "n", "t", "e", "g", "r", "i", "t", "y">>,
   <<"s", "h", "a", "5", "1", "2">>, <<"k", "i", "t">>,
   <<"l", "o", "c", "k">>, <<"l", "o", "g">>,
   <<"g", "l", "o", "b", "a", "l">>, <<"c", "h", "o", "i", "c", "e", "s">>}

\* tokenizeContent(content): the content is split at white space and every
\* piece goes through normalizeToken, which breaks it between [a-z] and
\* [A-Z] and at every character that is no letter and no digit, and
\* lower-cases the tokens
tokenizeContent(text) ==
  LET alnum(c) == c \in LowerAZ \cup UpperAZ \cup DigitChars
      RECURSIVE go(_, _, _)
      go(i, cur, acc) ==
        LET done == IF cur = <<>> THEN acc ELSE Append(acc, LowerCase(cur))
        IN IF i > Len(text) THEN done
           ELSE IF ~alnum(text[i]) THEN go(i + 1, <<>>, done)
           ELSE IF /\ cur # <<>>
                   /\ cur[Len(cur)] \in LowerAZ
                   /\ text[i] \in UpperAZ
           THEN go(i + 1, <<text[i]>>, done)
           ELSE go(i + 1, Append(cur, text[i]), acc)
  IN go(1, <<>>, <<>>)

\* isNoisyToken(t): a number, a token with at least as many digits as
\* letters, sha<digits>, or six or more hexadecimal digits
isNoisyToken(t) ==
  LET digits == Cardinality({i \in 1..Len(t) : t[i] \in DigitChars})
      letters == Cardinality({i \in 1..Len(t) : t[i] \in LowerAZ})
      hex == DigitChars \cup {"a", "b", "c", "d", "e", "f",
                              "A", "B", "C", "D", "E", "F"}
  IN \/ Len(t) > 0 /\ digits = Len(t)
     \/ digits > 0 /\ digits >= letters
     \/ /\ Len(t) > 3
        /\ LowerCase(SubSeq(t, 1, 3)) = <<"s", "h", "a">>
        /\ \A i \in 4..Len(t) : t[i] \in DigitChars
     \/ Len(t) >= 6 /\ \A i \in 1..Len(t) : t[i] \in hex

\* the tokens of a document that are scored: tokenizeContent(d.content)
\* .filter(t => t.length >= 3 && t.length <= 30 && !STOP_WORDS.has(t) &&
\* !isNoisyToken(t))
ScoredTokens(text) ==
  SelectSeq(tokenizeContent(text),
            LAMBDA t : /\ Len(t) >= 3
                       /\ Len(t) <= 30
                       /\ t \notin STOP_WORDS
                       /\ ~isNoisyToken(t))

\* ------------------------------------------------------ scoreKeywordsTFIDF
\* /(^|\/)test(s)?\//.test(docId): a directory of the path is named test
\* or tests
UnderTestDirectory(docId) ==
  LET segs == SplitOn(docId, "/")
  IN \E i \in 1..(Len(segs) - 1) :
       segs[i] \in {<<"t", "e", "s", "t">>, <<"t", "e", "s", "t", "s">>}

\* /\.(test|spec)\.[a-z]+$/.test(docId)
NamedTestOrSpec(docId) ==
  \E i \in 1..Len(docId) :
    /\ i + 6 <= Len(docId)
    /\ SubSeq(docId, i, i + 5) \in {<<".", "t", "e", "s", "t", ".">>,
                                    <<".", "s", "p", "e", "c", ".">>}
    /\ \A j \in (i + 6)..Len(docId) : docId[j] \in LowerAZ

\* const isTest = ...
isTest(docId) == UnderTestDirectory(docId) \/ NamedTestOrSpec(docId)

\* fileWeight *= f for a factor f given in tenths; the weight is held in
\* thousandths
Times(weight, tenths) == (weight * tenths) \div 10

\* "let fileWeight = 1.0" and the four "if (...) fileWeight *= ..." of the
\* scoring loop, in thousandths; ext is path.extname(docId).toLowerCase()
fileWeight(docId) ==
  LET ext == LowerCase(ExtName(docId))
      w0 == 1000
      w1 == IF ext = <<".", "m", "d">> THEN Times(w0, 5) ELSE w0
      w2 == IF ext \in {<<".", "j", "s", "o", "n">>,
                        <<".", "y", "a", "m", "l">>,
                        <<".", "y", "m", "l">>}
            THEN Times(w1, 6) ELSE w1
      w3 == IF ext = <<".", "d", ".", "t", "s">> THEN Times(w2, 7) ELSE w2
  IN IF isTest(docId) THEN Times(w3, 6) ELSE w3

\* ------------------------------------------------------- estimateTokensFor
\* tokenizeContent(content).length
TokenCount(text) == Len(tokenizeContent(text))

\* s.includes(t) for strings
IncludesText(s, t) ==
  \E p \in 0..(Len(s) - Len(t)) : SubSeq(s, p + 1, p + Len(t)) = t

\* the indices (0-based, ascending) of the lines that hold a keyword of
\* three characters or more: "keywords.some(k => k.length >= 3 &&
\* ln.includes(k.toLowerCase()))" over contentLower.split(/\r?\n/)
MatchLinesOf(text, keywords) ==
  LET parts == SplitLines(LowerCase(text))
  IN {i \in 0..(Len(parts) - 1) :
        \E k \in 1..Len(keywords) :
          /\ Len(keywords[k]) >= 3
          /\ IncludesText(parts[i + 1], LowerCase(keywords[k]))}

\* (variant: a gap equal to the radius starts a cluster as well)
ClusterCountAtGap(matchLines, radius) ==
  Cardinality({m \in matchLines :
                 \A l \in matchLines : l < m => m - l >= radius
                   \/ \E n \in matchLines : l < n /\ n < m})

\* "let last = -Infinity; for (const m of matchLines) { if (m - last >
\* lines) clusters++; last = m; }": a line starts a cluster when it is the
\* first or lies more than the radius after the matched line before it
ClusterCount(matchLines, radius) ==
  Cardinality({m \in matchLines :
                 \A l \in matchLines : l < m => m - l > radius
                   \/ \E n \in matchLines : l < n /\ n < m})

\* Math.round(a / b) for a >= 0 and b > 0
RoundDiv(a, b) == (2 * a + b) \div (2 * b)

\* Math.max(5, Math.round(tokensInDoc / Math.max(1, parts.length)))
AvgTokensPerLine(text) ==
  Max2(5, RoundDiv(TokenCount(text), Max2(1, Len(SplitLines(text)))))

\* the "total +=" of one document
EstimateOfDoc(text, keywords, radius) ==
  ClusterCount(MatchLinesOf(text, keywords), radius)
    * (2 * radius + 1) * AvgTokensPerLine(text)

\* estimateTokensFor(docs, keywords, lines)
estimateTokensFor(docs, keywords, radius) ==
  Sum([d \in 1..Len(docs) |-> EstimateOfDoc(docs[d].content, keywords,
                                            radius)])

\* ------------------------------------------------ runConceptMode: tuning
IsLinesFlag(a) == a \in {<<"-", "l">>, <<"-", "-", "l", "i", "n", "e", "s">>}

\* packArgs.some(a => a === '-l' || a === '--lines')
userSpecifiedLines(args) == \E i \in 1..Len(args) : IsLinesFlag(args[i])

\* the value of a text of decimal digits
DigitsValue(text) ==
  LET digit(c) == CHOOSE d \in 0..9 :
                    <<"0", "1", "2", "3", "4", "5", "6", "7", "8", "9">>[d + 1]
                      = c
      RECURSIVE go(_, _)
      go(i, acc) == IF i > Len(text) THEN acc
                    ELSE go(i + 1, 10 * acc + digit(text[i]))
  IN go(1, 0)

\* Number(v) of an argument: <<n>>, or <<>> for NaN; the argument that is
\* missing (undefined) is NaN, the empty string is 0
NumberOf(args, i) ==
  IF i > Len(args) THEN <<>>
  ELSE IF \A j \in 1..Len(args[i]) : args[i][j] \in DigitChars
  THEN <<DigitsValue(args[i])>>
  ELSE IF /\ Len(args[i]) > 1
          /\ args[i][1] = "-"
          /\ \A j \in 2..Len(args[i]) : args[i][j] \in DigitChars
  THEN <<0 - DigitsValue(Tail(args[i]))>>
  ELSE <<>>

\* extractLinesArg(): the first -l/--lines whose value is a number above
\* 0, or null
extractLinesArg(args) ==
  LET good == {i \in 1..Len(args) :
                 /\ IsLinesFlag(args[i])
                 /\ NumberOf(args, i + 1) # <<>>
                 /\ NumberOf(args, i + 1)[1] > 0}
  IN IF good = {} THEN <<>>
     ELSE NumberOf(args, (CHOOSE i \in good : \A j \in good : i <= j) + 1)

\* the "2" of "userSpecifiedLines ? (extractLinesArg() || 2) : 2"
DefaultLines == 2

\* let tunedLines = userSpecifiedLines ? (extractLinesArg() || 2) : 2
InitialLines(args) ==
  IF userSpecifiedLines(args) /\ extractLinesArg(args) # <<>>
  THEN extractLinesArg(args)[1]
  ELSE DefaultLines

\* (variant: the whole budget, without the margin)
EffectiveBudgetWhole(budget) == budget

\* Math.floor(maxTokens * 0.8)
EffectiveBudget(budget) == (budget * 8) \div 10

\* (variant: the keyword count is tightened before the radius)
TightenKeywordsFirst(l, k, t) ==
  IF k > 2
  THEN [lines |-> l, keywords |-> Max2(2, k - 1), topFiles |-> t,
        stop |-> FALSE]
  ELSE IF l > 1
  THEN [lines |-> Max2(1, l - 1), keywords |-> k, topFiles |-> t,
        stop |-> FALSE]
  ELSE IF t > 3
  THEN [lines |-> l, keywords |-> k, topFiles |-> Max2(3, t - 1),
        stop |-> FALSE]
  ELSE [lines |-> l, keywords |-> k, topFiles |-> t, stop |-> TRUE]

\* "Tighten order: lines -> keywords -> topFiles", else break
Tighten(l, k, t) ==
  IF l > 1
  THEN [lines |-> Max2(1, l - 1), keywords |-> k, topFiles |-> t,
        stop |-> FALSE]
  ELSE IF k > 2
  THEN [lines |-> l, keywords |-> Max2(2, k - 1), topFiles |-> t,
        stop |-> FALSE]
  ELSE IF t > 3
  THEN [lines |-> l, keywords |-> k, topFiles |-> Max2(3, t - 1),
        stop |-> FALSE]
  ELSE [lines |-> l, keywords |-> k, topFiles |-> t, stop |-> TRUE]

\* ------------------------------------------- runConceptMode: the arguments
\* const codeExts = [...]
codeExts ==
  {<<".", "t", "s">>, <<".", "t", "s", "x">>, <<".", "j", "s">>,
   <<".", "j", "s", "x">>, <<".", "p", "y">>, <<".", "g", "o">>,
   <<".", "r", "s">>, <<".", "j", "a", "v", "a">>}

\* the extensions of the documents that are code extensions, one for each
\* document, in the order of the documents
CodeExtsOf(docs) ==
  SelectSeq([d \in 1..Len(docs) |-> LowerCase(ExtName(docs[d].id))],
            LAMBDA e : e \in codeExts)

\* Array.from(extCounts.entries()).sort((a, b) => b[1] - a[1]): the keys of
\* the Map in insertion order, sorted by their counts, the larger first;
\* the sort is stable
SortByCount(keys, all) ==
  LET count(e) == Len(SelectSeq(all, LAMBDA x : x = e))
      RECURSIVE insert(_, _)
      insert(sorted, e) ==
        IF sorted = <<>> THEN <<e>>
        ELSE IF count(Head(sorted)) >= count(e)
        THEN <<Head(sorted)>> \o insert(Tail(sorted), e)
        ELSE <<e>> \o sorted
      RECURSIVE go(_, _)
      go(i, acc) == IF i > Len(keys) THEN acc
                    ELSE go(i + 1, insert(acc, keys[i]))
  IN go(1, <<>>)

\* const inferredExts = ... .map(([e]) => e.replace(/^\./, '')).slice(0, 4)
inferredExts(docs) ==
  LET all == CodeExtsOf(docs)
      sorted == SortByCount(SetAddAll(<<>>, all), all)
  IN SliceTo([i \in 1..Len(sorted) |-> Tail(sorted[i])], 4)

\* list.join(',')
JoinComma(list) ==
  LET RECURSIVE go(_)
      go(i) == IF i > Len(list) THEN <<>>
               ELSE IF i = 1 THEN list[1] \o go(2)
               ELSE <<",">> \o list[i] \o go(i + 1)
  IN go(1)

\* String(n) for n >= 0
NumberText(n) ==
  LET RECURSIVE go(_)
      go(k) ==
        IF k < 10
        THEN <<<<"0", "1", "2", "3", "4", "5", "6", "7", "8", "9">>[k + 1]>>
        ELSE go(k \div 10) \o go(k % 10)
  IN go(n)

FlagS == <<"-", "s">>

FlagE == <<"-", "e">>

FlagX == <<"-", "x">>

FlagL == <<"-", "l">>

\* packArgs.some(a => a === '-e' || a === '--extensions')
userSpecifiedExt(args) ==
  \E i \in 1..Len(args) :
    args[i] \in {FlagE, <<"-", "-", "e", "x", "t", "e", "n", "s", "i", "o",
                          "n", "s">>}

\* packArgs.some(a => a === '-x' || a === '--exclude-extensions')
userSpecifiedExcl(args) ==
  \E i \in 1..Len(args) :
    args[i] \in {FlagX, <<"-", "-", "e", "x", "c", "l", "u", "d", "e", "-",
                          "e", "x", "t", "e", "n", "s", "i", "o", "n", "s">>}

\* 'd.ts,spec.ts,spec.tsx,test.ts,test.tsx'
DefaultExcludes ==
  JoinComma(<<<<"d", ".", "t", "s">>, <<"s", "p", "e", "c", ".", "t", "s">>,
              <<"s", "p", "e", "c", ".", "t", "s", "x">>,
              <<"t", "e", "s", "t", ".", "t", "s">>,
              <<"t", "e", "s", "t", ".", "t", "s", "x">>>>)

\* `--meta-header=${metaB64}`: the flag; the base64 text is left out
MetaHeaderArg ==
  <<"-", "-", "m", "e", "t", "a", "-", "h", "e", "a", "d", "e", "r", "=">>

\* const packxArgs = [...]
PackxArgsOf(keywords, exts, args, radius) ==
  Flatten([k \in 1..Len(keywords) |-> <<FlagS, keywords[k]>>])
  \o (IF ~userSpecifiedExt(args) /\ Len(exts) > 0
      THEN <<FlagE, JoinComma(exts)>> ELSE <<>>)
  \o (IF ~userSpecifiedExcl(args) THEN <<FlagX, DefaultExcludes>> ELSE <<>>)
  \o (IF ~userSpecifiedLines(args) THEN <<FlagL, NumberText(radius)>>
      ELSE <<>>)
  \o <<MetaHeaderArg>>
  \o args

\* ------------------------------------------------ runConceptMode: the steps
\* what packx proper holds, which concept mode leaves alone: the per-file
\* state and the data of a run
packProper ==
  <<inputs, pattern, excludePattern, fileMatched, scan, merge, section,
    warned, argv, extensions, excludePatterns, candidates,
    filteredCandidates, matched, fi, listing, sections, fileSizes, warnings,
    reads, written, summary, totalMatchCount, totalWindowCount>>

\* "if (!searchString) { ... process.exit(1) }"
RejectEmptySearch ==
  /\ stage = "concept"
  /\ pc = "search"
  /\ searchString = <<>>
  /\ exitCode' = <<1>>
  /\ stage' = "exited"
  /\ UNCHANGED <<pc, tree, packProper, concept>>

\* documents.push({ id: file, path: file, content }): a file that cannot
\* be read is indexed with the empty content
DocumentOf(file) ==
  [id |-> file.path,
   content |-> IF file.readable THEN file.content ELSE <<>>]

\* every order of the elements of a set
OrdersOf(S) ==
  {f \in [1..Cardinality(S) -> S] :
     \A i, j \in 1..Cardinality(S) : f[i] = f[j] => i = j}

\* the keys of the scores Map of scoreKeywordsTFIDF: the scored tokens of
\* the documents (comment n-grams arise only from comment lines)
ScoredTerms(docs) ==
  UNION {Range(ScoredTokens(docs[d].content)) : d \in 1..Len(docs)}

\* the files are indexed and searched, topDocs are the documents of the
\* first opts.topFiles results (the tree lists the files in the order of
\* the search results), the seed terms are split off the search string and
\* scoreKeywordsTFIDF weighs every document and returns the scored terms
\* in the order of their scores, which is any order here
SearchAndRank ==
  /\ stage = "concept"
  /\ pc = "search"
  /\ searchString # <<>>
  /\ topDocs' = SliceTo([i \in 1..Len(tree) |-> DocumentOf(tree[i])],
                        opts[1].topFiles)
  /\ seedTerms' = SeedTermsOf(searchString)
  /\ fileWeights' = [d \in 1..Len(topDocs') |-> fileWeight(topDocs'[d].id)]
  /\ ranked' \in OrdersOf(ScoredTerms(topDocs'))
  /\ pc' = "keywords"
  /\ UNCHANGED <<tree, stage, exitCode, packProper, searchString, opts,
                 maxTokens, packArgs, topKeywords, tunedLines,
                 tunedKeywords, tunedTopFiles, estimate, packxArgs>>

\* "Ensure seeds are present and de-duplicated", then the initial values
\* of the three tuned parameters
SelectKeywords ==
  /\ stage = "concept"
  /\ pc = "keywords"
  /\ topKeywords' = KeywordList(seedTerms, ranked, opts[1].keywords)
  /\ tunedLines' = InitialLines(packArgs)
  /\ tunedKeywords' = opts[1].keywords
  /\ tunedTopFiles' = opts[1].topFiles
  /\ pc' = IF maxTokens > 0 THEN "loop" ELSE "tuned"
  /\ UNCHANGED <<tree, stage, exitCode, packProper, searchString, seedTerms,
                 ranked, opts, maxTokens, packArgs, topDocs, fileWeights,
                 estimate, packxArgs>>

\* one iteration of "while (true)": the estimate for the present values,
\* "if (estimate <= effectiveBudget) break", else the tightening or the
\* final break
TuneStep ==
  /\ stage = "concept"
  /\ pc = "loop"
  /\ LET est == estimateTokensFor(SliceTo(topDocs, tunedTopFiles),
                                  SliceTo(topKeywords, tunedKeywords),
                                  tunedLines)
         next == Tighten(tunedLines, tunedKeywords, tunedTopFiles)
     IN /\ estimate' = <<est>>
        /\ IF est <= EffectiveBudget(maxTokens) \/ next.stop
           THEN /\ pc' = "tuned"
                /\ UNCHANGED <<tunedLines, tunedKeywords, tunedTopFiles>>
           ELSE /\ pc' = "loop"
                /\ tunedLines' = next.lines
                /\ tunedKeywords' = next.keywords
                /\ tunedTopFiles' = next.topFiles
  /\ UNCHANGED <<tree, stage, exitCode, packProper, searchString, seedTerms,
                 ranked, opts, maxTokens, packArgs, topDocs, fileWeights,
                 topKeywords, packxArgs>>

\* "if (opts.preview) { ... process.exit(0) }"
PreviewConcept ==
  /\ stage = "concept"
  /\ pc = "tuned"
  /\ opts[1].preview
  /\ exitCode' = <<0>>
  /\ stage' = "exited"
  /\ UNCHANGED <<pc, tree, packProper, concept>>

\* const packxArgs = [...], handed to packx
BuildPackxArgs ==
  /\ stage = "concept"
  /\ pc = "tuned"
  /\ ~opts[1].preview
  /\ packxArgs' = PackxArgsOf(SliceTo(topKeywords, tunedKeywords),
                              inferredExts(topDocs), packArgs, tunedLines)
  /\ pc' = "done"
  /\ UNCHANGED <<tree, stage, exitCode, packProper, searchString, seedTerms,
                 ranked, opts, maxTokens, packArgs, topDocs, fileWeights,
                 topKeywords, tunedLines, tunedKeywords, tunedTopFiles,
                 estimate>>

\* ------------------------------------------------- the runs of concept mode
\* the largest keyword count and working-set size asked for (0 stands for
\* a value that is no number or zero), the largest number of documents, the
\* largest budget in steps of 25 tokens, the radius of a user's -l
MaxKeywords == 4

MaxTopFiles == 4

MaxDocs == 3

MaxBudget == 3

MaxLines == 3

Foo == <<"f", "o", "o">>

Bar == <<"b", "a", "r">>

\* a file of the working tree that can be read
Source(path, text) == File(path, text, 0, TRUE, TRUE)

\* documents that differ in where the keywords stand: two matched lines
\* two apart, adjacent matched lines, matched lines three and one apart, a
\* line of nine tokens, and a file that cannot be read
TuneDocs ==
  <<Source(<<"a", ".", "t", "s">>, Foo \o <<"\n", "\n">> \o Foo),
    Source(<<"b", ".", "t", "s">>, Foo \o <<"\n">> \o Bar),
    Source(<<"c", ".", "p", "y">>,
           Bar \o <<"\n", "\n", "\n">> \o Bar \o <<"\n">> \o Foo),
    Source(<<"d", ".", "m", "d">>,
           Foo \o <<" ", "t", "a", "x", "T", "a", "x", " ", "a", "_", "b",
                    ".", "c", "-", "d", " ", "t", "a", "x">>),
    File(<<"e", ".", "g", "o">>, Foo, 0, FALSE, FALSE)>>

\* documents that differ in their names
WeightDocs ==
  <<Source(<<"a", ".", "t", "s">>, Foo),
    Source(<<"a", ".", "m", "d">>, Foo),
    Source(<<"b", ".", "j", "s", "o", "n">>, Foo),
    Source(<<"x", ".", "y", "a", "m", "l">>, Foo),
    Source(<<"y", ".", "y", "m", "l">>, Foo),
    Source(<<"c", ".", "d", ".", "t", "s">>, Foo),
    Source(<<"t", "e", "s", "t", "/", "a", ".", "t", "s">>, Foo),
    Source(<<"s", "/", "t", "e", "s", "t", "s", "/", "a", ".", "m", "d">>,
           Foo),
    Source(<<"a", ".", "t", "e", "s", "t", ".", "t", "s">>, Foo),
    Source(<<"a", ".", "s", "p", "e", "c", ".", "j", "s", "o", "n">>, Foo),
    Source(<<"t", "e", "s", "t", ".", "t", "s">>, Foo),
    Source(<<"l", "a", "t", "e", "s", "t", "/", "a", ".", "t", "s">>, Foo),
    Source(<<"a", ".", "t", "e", "s", "t", ".", "T", "D">>, Foo),
    Source(<<"t", "e", "s", "t", "s", "/", "b", ".", "d", ".", "t", "s">>,
           Foo)>>

\* the elements of the pool at the places of the set, in the pool's order
PickFrom(pool, places) ==
  LET RECURSIVE go(_)
      go(i) == IF i > Len(pool) THEN <<>>
               ELSE (IF i \in places THEN <<pool[i]>> ELSE <<>>) \o go(i + 1)
  IN go(1)

\* the working trees of at most MaxDocs documents of the pool
DocTrees(pool) ==
  {PickFrom(pool, places) :
     places \in {ps \in SUBSET (1..Len(pool)) : Cardinality(ps) <= MaxDocs}}

\* the options as parsed: 0 is a value that "Number(...) ||" replaces
Options(k, t, p) ==
  [keywords |-> KeywordsOption(k), topFiles |-> TopFilesOption(t),
   preview |-> p]

\* [searchString, opts, maxTokens, packArgs, tree]
ConceptRun(q, o, m, args, t) ==
  [searchString |-> q, opts |-> o, maxTokens |-> m, packArgs |-> args,
   tree |-> t]

FooBar == Foo \o <<" ">> \o Bar

\* -l <MaxLines> after "--"
UserLines == <<FlagL, NumberText(MaxLines)>>

\* runs that differ in the documents, the counts asked for, the budget and
\* the user's radius
TuneRuns ==
  {ConceptRun(FooBar, Options(k, t, FALSE), 25 * m, args, docs) :
     k \in 1..MaxKeywords, t \in {MaxTopFiles}, m \in 0..MaxBudget,
     args \in {<<>>, UserLines}, docs \in DocTrees(TuneDocs)}
  \cup {ConceptRun(FooBar, Options(0, 0, FALSE), 25, <<>>, TuneDocs)}

\* search strings: one word, two words, a word twice, capitals and a word
\* of one letter, blanks in a row, a word of two letters
SearchStrings ==
  {Foo, FooBar, Bar \o <<" ">> \o Foo \o <<" ">> \o Bar,
   <<"F", "o", "o", " ", "a", " ", "t", "a", "x">>,
   Foo \o <<" ", " ">> \o Bar, <<"f", "o", " ">> \o Foo}

\* runs that differ in the search string and the keyword count
KeywordRuns ==
  {ConceptRun(q, Options(k, 0, p), 0, <<>>, docs) :
     q \in SearchStrings, k \in 0..MaxKeywords, p \in BOOLEAN,
     docs \in {SubSeq(TuneDocs, 2, 4), SubSeq(TuneDocs, 4, 4)}}

\* runs that differ in the names of the documents
WeightRuns ==
  {ConceptRun(Foo, Options(0, 0, FALSE), 0, <<>>, docs) :
     docs \in {<<WeightDocs[i]>> : i \in 1..Len(WeightDocs)}
              \cup {WeightDocs}}

\* the arguments after "--": none, a radius as -l or --lines, with a value
\* that is no radius, as --lines=<n>, twice, and extensions and excludes
PackArgsPool ==
  {<<>>,
   UserLines,
   <<<<"-", "-", "l", "i", "n", "e", "s">>, <<"1">>>>,
   <<FlagL, <<"0">>>>,
   <<FlagL>>,
   <<FlagL, <<"x">>, FlagL, <<"2">>>>,
   <<<<"-", "-", "l", "i", "n", "e", "s", "=", "5">>>>,
   <<<<"-", "l", "5">>>>,
   <<FlagE, <<"t", "s">>>>,
   <<FlagX, <<"m", "d">>>>,
   <<<<"-", "-", "e", "x", "t", "e", "n", "s", "i", "o", "n", "s", "=", "t",
       "s">>>>,
   <<FlagE, <<"p", "y">>, FlagX, <<"m", "d">>, FlagL, <<"1">>>>}

\* runs that differ in the arguments after "--"
ArgRuns ==
  {ConceptRun(FooBar, Options(3, 0, FALSE), 25 * m, args, docs) :
     m \in {0, 1}, args \in PackArgsPool,
     docs \in {SubSeq(TuneDocs, 1, 3), SubSeq(TuneDocs, 4, 4)}}

\* a run without a search string
EmptySearchRuns ==
  {ConceptRun(<<>>, Options(0, 0, FALSE), 0, <<>>, SubSeq(TuneDocs, 1, 1))}

\* the command line and the tree are those of a run of the set
ConceptRunsFrom(runs) ==
  \E run \in runs :
    /\ searchString = run.searchString
    /\ opts = <<run.opts>>
    /\ maxTokens = run.maxTokens
    /\ packArgs = run.packArgs
    /\ tree = run.tree

InitConcept ==
  /\ \/ ConceptRunsFrom(TuneRuns)
     \/ ConceptRunsFrom(KeywordRuns)
     \/ ConceptRunsFrom(WeightRuns)
     \/ ConceptRunsFrom(ArgRuns)
     \/ ConceptRunsFrom(EmptySearchRuns)
  /\ stage = "concept"
  /\ pc = "search"
  /\ seedTerms = <<>>
  /\ ranked = <<>>
  /\ topDocs = <<>>
  /\ fileWeights = <<>>
  /\ topKeywords = <<>>
  /\ tunedLines = 0
  /\ tunedKeywords = 0
  /\ tunedTopFiles = 0
  /\ estimate = <<>>
  /\ packxArgs = <<>>
  /\ strings = <<>>
  /\ excludeStrings = <<>>
  /\ caseSensitive = FALSE
  /\ contextLines = 0
  /\ FileIdle
  /\ argv = <<>>
  /\ extensions = <<>>
  /\ excludePatterns = <<>>
  /\ candidates = <<>>
  /\ filteredCandidates = <<>>
  /\ matched = <<>>
  /\ fi = 0
  /\ listing = <<>>
  /\ sections = <<>>
  /\ fileSizes = <<>>
  /\ warnings = <<>>
  /\ reads = {}
  /\ exitCode = <<>>
  /\ written = "none"
  /\ summary = <<>>
  /\ totalMatchCount = 0
  /\ totalWindowCount = 0

NextConcept ==
  \/ RejectEmptySearch
  \/ SearchAndRank
  \/ SelectKeywords
  \/ TuneStep
  \/ PreviewConcept
  \/ BuildPackxArgs

SpecConcept == InitConcept /\ [][NextConcept]_vars

\* ================================================================ claims
\* extractContextWindows has returned; merged is its result
Returned == pc = "returned"

\* the run is the given one
IsRun(run) ==
  /\ strings = run.strings
  /\ caseSensitive = run.caseSensitive
  /\ contextLines = run.contextLines
  /\ content = run.content

\* where in the returned windows the match m sits
MatchSlots(m) ==
  {slot \in (1..Len(merged)) \X (1..Len(matches)) :
     /\ slot[2] <= Len(merged[slot[1]].matches)
     /\ merged[slot[1]].matches[slot[2]] = m}

RECURSIVE SumOfMatches(_)
SumOfMatches(ws) ==
  IF ws = <<>> THEN 0 ELSE Len(Head(ws).matches) + SumOfMatches(Tail(ws))

\* C1: when extractContextWindows returns for a radius R >= 1, every match
\* that findAllMatches found sits in exactly one returned window, that
\* window's line range contains the match's line, and the returned windows
\* hold as many matches as were found.
C1_EveryMatchInOneWindow ==
  (Returned /\ contextLines >= 1) =>
    /\ \A i \in 1..Len(matches) :
         /\ Cardinality(MatchSlots(matches[i])) = 1
         /\ \A slot \in MatchSlots(matches[i]) :
              /\ merged[slot[1]].startLine <= matches[i].line
              /\ matches[i].line <= merged[slot[1]].endLine
    /\ SumOfMatches(merged) = Len(matches)

\* several windows are returned and one of them took over a second match
C1_Witness ==
  /\ Returned
  /\ contextLines >= 1
  /\ Len(merged) >= 2
  /\ \E w \in 1..Len(merged) :
       \E j, k \in 1..Len(merged[w].matches) :
         merged[w].matches[j].line # merged[w].matches[k].line

\* C2: the returned windows are in strictly ascending startLine order and
\* any two consecutive ones are neither overlapping nor adjacent
\* (w2.startLine > w1.endLine + 1); consecutive candidate windows that share
\* a line or touch come out inside one window, and matches on lines 2 and 4
\* of a 5-line file with radius 1 come out as the single window [1,5].
C2_WindowsApartAndAscending ==
  Returned =>
    /\ \A i \in 1..(Len(merged) - 1) :
         /\ merged[i].startLine < merged[i + 1].startLine
         /\ merged[i + 1].startLine > merged[i].endLine + 1
    /\ \A i \in 1..(Len(windows) - 1) :
         windows[i + 1].startLine <= windows[i].endLine + 1 =>
           \E w \in 1..Len(merged) :
             \E j, k \in 1..Len(merged[w].matches) :
               /\ merged[w].matches[j] = matches[i]
               /\ merged[w].matches[k] = matches[i + 1]
    /\ IsRun(ScenarioTwoMatches) =>
         /\ Len(merged) = 1
         /\ merged[1].startLine = 1
         /\ merged[1].endLine = 5

\* two candidates that exactly touch were merged, and two windows are apart
C2_Witness ==
  /\ Returned
  /\ Len(merged) >= 2
  /\ \E i \in 1..(Len(windows) - 1) :
       windows[i + 1].startLine = windows[i].endLine + 1

\* the lines the returned windows cover
CoveredLines == UNION {merged[w].startLine..merged[w].endLine : w \in 1..Len(merged)}

\* the lines of the file within the radius of some match
LinesNearMatches ==
  {l \in 1..Len(lines) :
     \E i \in 1..Len(matches) :
       /\ l - matches[i].line <= contextLines
       /\ matches[i].line - l <= contextLines}

\* C3: the lines covered by the returned windows are exactly the lines of
\* the file within R of some match: merging adds no line and drops none.
C3_CoverIsLinesNearMatches == Returned => CoveredLines = LinesNearMatches

\* windows were merged, several are returned and some line is left out
C3_Witness ==
  /\ Returned
  /\ Len(merged) >= 2
  /\ Len(windows) > Len(merged)
  /\ CoveredLines # 1..Len(lines)

\* C4: the sweep applied to the returned windows returns them unchanged.
C4_MergeIsIdempotent == Returned => MergeWindows(lines, merged) = merged

\* a result of several windows that came from merging
C4_Witness ==
  /\ Returned
  /\ Len(merged) >= 2
  /\ Len(windows) > Len(merged)

\* the window w lies in the file and carries exactly its lines
WellFormedWindow(w) ==
  /\ 1 <= w.startLine
  /\ w.startLine <= w.endLine
  /\ w.endLine <= Len(lines)
  /\ Len(w.lines) = w.endLine - w.startLine + 1
  /\ \A k \in 1..Len(w.lines) : w.lines[k] = lines[w.startLine + k - 1]

\* C5: every window, as a candidate, as the accumulator of the sweep and as
\* a returned window, satisfies 1 <= startLine <= endLine <= lastLine and
\* its lines are the file's lines startLine..endLine; a radius at least the
\* file's length gives [1, lastLine]; "x\nTODO\ny\n" with radius 1 gives the
\* one window 1..3 with lines x, TODO, y and the match at line 2, column 0.
C5_WindowsWellFormed ==
  /\ \A i \in 1..Len(windows) : WellFormedWindow(windows[i])
  /\ \A i \in 1..Len(current) : WellFormedWindow(current[i])
  /\ \A i \in 1..Len(merged) : WellFormedWindow(merged[i])
  /\ contextLines >= Len(lines) =>
       \A i \in 1..Len(windows) :
         windows[i].startLine = 1 /\ windows[i].endLine = Len(lines)
  /\ (Returned /\ IsRun(ScenarioTodo)) =>
       merged = <<[startLine |-> 1,
                   endLine |-> 3,
                   lines |-> <<<<"x">>, <<"T", "O", "D", "O">>, <<"y">>>>,
                   matches |-> <<[line |-> 2, column |-> 0,
                                  match |-> <<"T", "O", "D", "O">>]>>]>>

\* a window clipped at both ends of the file was widened by the sweep
C5_Witness ==
  /\ pc = "merge"
  /\ \E i \in 1..Len(current) :
       /\ current[i].startLine = 1
       /\ current[i].endLine = Len(lines)
       /\ Len(current[i].matches) >= 2
  /\ \E i \in 1..Len(windows) :
       /\ windows[i].startLine > windows[i].matches[1].line - contextLines
       /\ windows[i].endLine < windows[i].matches[1].line + contextLines

\* ------------------------------------------------ literals and case mode
\* the content filter has decided about the file
Filtered == pc \notin {"compile", "filter"}

\* findAllMatches has gone through every line; matches is its result
ScanOver == lines # <<>> /\ lineIndex = Len(lines)

\* the character as the active case mode compares it
Fold(c) == IF caseSensitive THEN c ELSE ToUpperCase(c)

\* the literal lit stands in text at index p (0-based)
OccursAt(lit, text, p) ==
  /\ p + Len(lit) <= Len(text)
  /\ \A j \in 1..Len(lit) : Fold(text[p + j]) = Fold(lit[j])

\* lit is a substring of text
Occurs(lit, text) == \E p \in 0..Len(text) : OccursAt(lit, text, p)

AnyOccurs(lits, text) == \E s \in 1..Len(lits) : Occurs(lits[s], text)

\* C6: every character of an include or exclude literal is matched as
\* itself: a file that is read is selected iff some include literal (when
\* there is one) is a substring of its content and no exclude literal is; a
\* reported match is an occurrence of a literal at its column; the literal
\* "a.b*c" does not match "aXbYYYc" and matches only where it is spelt out.
C6_LiteralsMatchLiterally ==
  /\ (Filtered /\ readable /\ fileSize <= MaxFileBytes) =>
       (fileMatched <=>
          /\ Len(strings) > 0 => AnyOccurs(strings, content)
          /\ ~AnyOccurs(excludeStrings, content))
  /\ \A i \in 1..Len(matches) :
       \E s \in 1..Len(strings) :
         /\ Len(matches[i].match) = Len(strings[s])
         /\ OccursAt(strings[s], lines[matches[i].line], matches[i].column)
  /\ (Filtered /\ IsRun(ScenarioMetaMiss)) => ~fileMatched
  /\ (ScanOver /\ IsRun(ScenarioMetaHit)) =>
       matches = <<[line |-> 1, column |-> 1,
                    match |-> <<"a", ".", "b", "*", "c">>]>>

\* the literal with metacharacters was found where it is spelt out
C6_Witness ==
  /\ pc = "done"
  /\ IsRun(ScenarioMetaHit)
  /\ fileMatched
  /\ Len(matches) = 1

\* u and v are the same text up to the case of their letters
SameBarCase(u, v) ==
  /\ Len(u) = Len(v)
  /\ \A j \in 1..Len(u) : ToUpperCase(u[j]) = ToUpperCase(v[j])

\* some casing of lit (the very lit when exact) is a substring of text
HasCasingOf(lit, text, exact) ==
  \E p \in 1..(Len(text) - Len(lit) + 1) :
    LET found == SubSeq(text, p, p + Len(lit) - 1)
    IN IF exact THEN found = lit ELSE SameBarCase(found, lit)

NoNewline(lit) == \A j \in 1..Len(lit) : lit[j] # "\n"

ScanFrom(i) ==
  IF i > 1 /\ matches[i - 1].line = matches[i].line
  THEN matches[i - 1].column + Len(matches[i - 1].match)
  ELSE 0

\* the literals that stand at index p of text, by their place in the list
LiteralsAt(text, p) == {s \in 1..Len(strings) : OccursAt(strings[s], text, p)}

\* where the scan of line k stopped finding matches
ScanEnd(k) ==
  LET on == {i \in 1..Len(matches) : matches[i].line = k}
  IN IF on = {} THEN 0
     ELSE LET last == CHOOSE i \in on : \A j \in on : j <= i
          IN matches[last].column + Len(matches[last].match)

\* C8: the matches of findAllMatches carry a 1-based line and a 0-based
\* column and are in strictly increasing (line, column) order; a match is
\* the leftmost occurrence of a literal at or after the end of the previous
\* match on its line, so matches on a line never overlap; when the scan is
\* over no occurrence is left behind the last match of a line, and an empty
\* content has no match.
C8_MatchesOrderedLeftmost ==
  /\ \A i \in 1..Len(matches) :
       LET m == matches[i]
       IN /\ m.line \in 1..Len(lines)
          /\ m.column \in 0..(Len(lines[m.line]) - 1)
          /\ Len(m.match) > 0
          /\ m.match = SubSeq(lines[m.line], m.column + 1,
                              m.column + Len(m.match))
          /\ m.column >= ScanFrom(i)
          /\ LiteralsAt(lines[m.line], m.column) # {}
          /\ Len(m.match) =
               Len(strings[Min(LiteralsAt(lines[m.line], m.column))])
          /\ \A p \in ScanFrom(i)..(m.column - 1) :
               LiteralsAt(lines[m.line], p) = {}
  /\ \A i \in 1..(Len(matches) - 1) :
       \/ matches[i].line < matches[i + 1].line
       \/ /\ matches[i].line = matches[i + 1].line
          /\ matches[i].column < matches[i + 1].column
          /\ matches[i].column + Len(matches[i].match) <= matches[i + 1].column
  /\ ScanOver =>
       \A k \in 1..Len(lines) :
         \A p \in ScanEnd(k)..Len(lines[k]) : LiteralsAt(lines[k], p) = {}
  /\ content = <<>> => matches = <<>>

\* the scan is over and found two matches on one line and one further down
C8_Witness ==
  /\ ScanOver
  /\ \E i \in 1..(Len(matches) - 1) : matches[i].line = matches[i + 1].line
  /\ \E i \in 1..Len(matches) : matches[i].line >= 2

\* C9, as stated: scanning the literal "aa" in the line "aaa" yields two
\* MatchPositions (overlapping occurrences are both reported).
C9_OverlapsBothReported ==
  (ScanOver /\ IsRun(ScenarioOverlap)) => Len(matches) = 2

\* C9, amended: scanning the literal "aa" in the line "aaa" yields one
\* MatchPosition, at column 0; the occurrence at column 1, which overlaps
\* it, is not reported.
C9_OverlapReportedOnce ==
  (ScanOver /\ IsRun(ScenarioOverlap)) =>
    matches = <<[line |-> 1, column |-> 0, match |-> <<"a", "a">>]>>

\* "aa" was scanned in "aaa"
C9_Witness ==
  /\ ScanOver
  /\ IsRun(ScenarioOverlap)
  /\ Len(matches) = 1

\* C10, as stated: "FOO and BAR" scanned case-insensitively for "foo" and
\* "bar" yields exactly two matches on line 1, at columns 0 and 9.
C10_FooBarAtColumns0And9 ==
  (ScanOver /\ IsRun(ScenarioFooBar)) =>
    /\ Len(matches) = 2
    /\ matches[1].line = 1 /\ matches[1].column = 0
    /\ matches[2].line = 1 /\ matches[2].column = 9

\* C10, amended: "FOO and BAR" scanned case-insensitively for "foo" and
\* "bar" yields exactly two matches on line 1, "FOO" at column 0 and "BAR"
\* at column 8.
C10_FooBarAtColumns0And8 ==
  (ScanOver /\ IsRun(ScenarioFooBar)) =>
    matches = <<[line |-> 1, column |-> 0, match |-> <<"F", "O", "O">>],
                [line |-> 1, column |-> 8, match |-> <<"B", "A", "R">>]>>

\* "FOO and BAR" was scanned for both literals
C10_Witness ==
  /\ ScanOver
  /\ IsRun(ScenarioFooBar)
  /\ Len(matches) = 2

\* ----------------------------------------------------------- run helpers
\* the output loop has finished its work on the file under way
FileEmitted == stage = "emit" /\ pc = "done"

\* the lines (1-based) of the file under way that hold a match
MatchedLines == {matches[m].line : m \in 1..Len(matches)}

\* C11: when a context radius of 0 is requested (-l 0) for a run with search
\* strings, the section of a file that was read is made of windows and never
\* of the whole file: every line of a window is a matched line, and
\* matched lines L and L+1 lie in one window.  Radius 0 is not the absent
\* radius that means "whole file".
C11_RadiusZeroGivesMatchedLines ==
  (FileEmitted /\ argv.l = <<0>> /\ Len(strings) > 0 /\ ~warned)
    => /\ section # "whole"
       /\ \A w \in 1..Len(merged) :
            /\ (merged[w].startLine)..(merged[w].endLine) \subseteq MatchedLines
            /\ merged[w].endLine + 1 \notin MatchedLines

\* the Pack Summary has been printed
SummaryPrinted == stage = "done" /\ summary # <<>>

\* t is n / 4 rounded up
IsCeilOfQuarter(t, n) == 4 * t >= n /\ 4 * (t - 1) < n

\* t is n / 4 rounded to the nearest integer, a half going up
IsRoundOfQuarter(t, n) == 4 * t <= n + 2 /\ n + 2 < 4 * t + 4

\* C12 as stated: every token estimate the program reports, per file and
\* in the summary's total, is ceil(characterCount / 4).
C12_TokensAreCeiling ==
  /\ \A i \in 1..Len(fileSizes) :
       IsCeilOfQuarter(fileSizes[i].tokens, fileSizes[i].size)
  /\ SummaryPrinted
       => IsCeilOfQuarter(summary[1].totalTokens, summary[1].totalChars)

\* C12, amended: every token estimate the program reports, per file and in
\* the summary's total, is characterCount / 4 rounded to the nearest
\* integer with a half rounded up (Math.round), 0 for no characters; the
\* per-file count is the length of the section built for the file and the
\* total is either the sum of these lengths (summary-only run) or the
\* length of the whole output.
C12_TokensAreRounded ==
  /\ \A i \in 1..Len(fileSizes) :
       /\ IsRoundOfQuarter(fileSizes[i].tokens, fileSizes[i].size)
       /\ fileSizes[i].size > 0
  /\ FileEmitted /\ section # "none" =>
       /\ FileOutputLength(matched[fi + 1]) > Len(matched[fi + 1])
       /\ section = "whole" =>
            FileOutputLength(matched[fi + 1]) > Len(content)
  /\ SummaryPrinted =>
       /\ IsRoundOfQuarter(summary[1].totalTokens, summary[1].totalChars)
       /\ summary[1].totalChars = 0 => summary[1].totalTokens = 0
       /\ argv.out = "none" =>
            summary[1].totalChars =
              Sum([i \in 1..Len(fileSizes) |-> fileSizes[i].size])
       /\ argv.out # "none" =>
            summary[1].totalChars >
              Sum([i \in 1..Len(fileSizes) |-> fileSizes[i].size])

\* a summary where rounding and rounding up differ, for a file and for the
\* total
C12_Witness ==
  /\ SummaryPrinted
  /\ \E i \in 1..Len(fileSizes) : fileSizes[i].size % 4 = 1
  /\ summary[1].totalChars % 4 = 1
  /\ Len(fileSizes) = 2

\* the run was given a config file that cannot be read
ConfigUnreadable == argv.f # <<>> /\ ~argv.f[1].readable

\* the path ends with the extension, whatever the case of its letters
HasExtension(path, ext) ==
  /\ Len(path) > Len(ext)
  /\ LowerCase(SubSeq(path, Len(path) - Len(ext) + 1, Len(path)))
       = LowerCase(ext)

\* C13: each failure category ends the run with its own exit status: an
\* unreadable config file with 1, no candidate file after the discovery by
\* extension with 2, candidates of which none is matched with 3, and in no
\* other case; the no-candidates outcome is decided before any candidate
\* is read, and in none of the three is a listing, a section, a summary or
\* an output written.
C13_FailureExitCodes ==
  /\ exitCode = <<1>> <=> (stage = "exited" /\ ConfigUnreadable)
  /\ exitCode = <<2>> <=>
       (stage = "exited" /\ ~ConfigUnreadable /\ Len(candidates) = 0)
  /\ exitCode = <<3>> <=>
       /\ stage = "exited"
       /\ Len(candidates) > 0
       /\ Len(matched) = 0
  /\ exitCode = <<2>> =>
       /\ reads = {}
       /\ excludePatterns = <<>> =>
            \A i \in 1..Len(tree), e \in 1..Len(extensions) :
              HasExtension(tree[i].path, extensions[e])
                => HasExtension(tree[i].path, <<".", "l", "o", "g">>)
  /\ exitCode = <<3>> =>
       \E i \in 1..Len(tree), e \in 1..Len(extensions) :
         HasExtension(tree[i].path, extensions[e])
  /\ exitCode \in {<<1>>, <<2>>, <<3>>} =>
       /\ written = "none"
       /\ listing = <<>>
       /\ sections = <<>>
       /\ summary = <<>>
  /\ stage \in {"emit", "done"} =>
       /\ ~ConfigUnreadable
       /\ Len(matched) > 0
       /\ exitCode = <<>>

\* a run that read candidates and matched none of them
C13_Witness ==
  /\ exitCode = <<3>>
  /\ reads # {}
  /\ Len(candidates) = 2

\* the options are parsed and the merged include list, empty strings
\* dropped, holds no search term
NoTermSupplied == stage # "options" /\ Len(strings) = 0

InList(list, v) == \E i \in 1..Len(list) : list[i] = v

\* the output loop builds a section for the file: it can be read and, when
\* windows are extracted, one of its lines holds a match
GivesSection(file) ==
  /\ file.readableAtEmit
  /\ EffectiveContextLines # 0 =>
       \E k \in 1..Len(SplitLines(file.content)) :
         RegExpTest(pattern[1], SplitLines(file.content)[k])

\* the filter loop has gone through every filtered candidate
FilterOver == stage \in {"emit", "done"} \/ exitCode \in {<<0>>, <<3>>}

\* no exclude literal is in the text and, when there are include
\* literals, one of them is
Wanted(text) ==
  /\ ~AnyOccurs(excludeStrings, text)
  /\ Len(strings) > 0 => AnyOccurs(strings, text)

\* C15: a read or stat failure on one file never aborts the run and never
\* changes the result for another file. In the content filter a file that
\* cannot be read is not matched, and every file that can is matched by
\* its own content alone; in the output stage a file that cannot be read
\* gives a warning and no section, every other matched file gives its
\* section (unless windows are extracted and it has none) and no warning,
\* and the run ends normally with its output written and its summary
\* printed.
C15_FileFailuresAreLocal ==
  /\ FilterOver =>
       \A i \in 1..Len(filteredCandidates) :
         LET file == FileOf(filteredCandidates[i])
         IN /\ (~file.readable /\ Len(strings) + Len(excludeStrings) > 0)
                 => ~InList(matched, file.path)
            /\ (file.readable /\ file.fileSize <= MaxFileBytes)
                 => (InList(matched, file.path) <=> Wanted(file.content))
  /\ stage = "done" =>
       /\ exitCode = <<>>
       /\ written = argv.out
       /\ Len(summary) = 1
       /\ Len(fileSizes) + Len(warnings) <= Len(matched)
       /\ \A i \in 1..Len(matched) :
            LET file == FileOf(matched[i])
                kept == {k \in 1..Len(fileSizes) :
                           fileSizes[k].path = file.path}
                shown == {k \in 1..Len(sections) :
                            sections[k].path = file.path}
            IN IF file.readableAtEmit
               THEN /\ ~InList(warnings, file.path)
                    /\ Cardinality(kept)
                         = IF GivesSection(file) THEN 1 ELSE 0
                    /\ Cardinality(shown)
                         = IF GivesSection(file) /\ argv.out # "none"
                           THEN 1 ELSE 0
               ELSE /\ InList(warnings, file.path)
                    /\ kept = {}
                    /\ shown = {}
  /\ stage = "exited" =>
       \/ exitCode = <<1>> /\ ConfigUnreadable
       \/ exitCode = <<2>> /\ Len(candidates) = 0
       \/ exitCode = <<3>> /\ Len(matched) = 0
       \/ exitCode = <<0>> /\ argv.preview

\* a run over two matched files of which the first could not be read in
\* the output stage and the second got its section
C15_Witness ==
  /\ stage = "done"
  /\ Len(matched) = 2
  /\ warnings = <<matched[1]>>
  /\ Len(sections) = 1
  /\ sections[1].path = matched[2]

\* C16: a candidate file of more than 10 MiB is never read and never
\* matched, whether or not include strings and exclude strings are given,
\* and skipping it raises no warning; a file of exactly 10 MiB that can be
\* read is still read by the filter and matched by its content.
C16_OversizedNeverReadOrMatched ==
  \A i \in 1..Len(tree) :
    /\ tree[i].fileSize > MaxFileBytes =>
         /\ ~InList(matched, tree[i].path)
         /\ tree[i].path \notin reads
         /\ ~InList(warnings, tree[i].path)
    /\ ( /\ FilterOver
         /\ tree[i].fileSize = MaxFileBytes
         /\ tree[i].readable
         /\ InList(filteredCandidates, tree[i].path)
         /\ Len(strings) + Len(excludeStrings) > 0 ) =>
         /\ tree[i].path \in reads
         /\ InList(matched, tree[i].path) <=> Wanted(tree[i].content)

\* no element stands twice in the list
NoRepeat(list) ==
  \A i, j \in 1..Len(list) : list[i] = list[j] => i = j

\* where v stands in a list that holds it
PlaceIn(list, v) == CHOOSE i \in 1..Len(list) : list[i] = v

\* sub holds elements of list only, none twice, in the order of list
IsOrderedPart(sub, list) ==
  /\ NoRepeat(sub)
  /\ \A i \in 1..Len(sub) : InList(list, sub[i])
  /\ \A i, j \in 1..Len(sub) :
       i < j => PlaceIn(list, sub[i]) < PlaceIn(list, sub[j])

\* the paths of the sections written so far
SectionPaths == [i \in 1..Len(sections) |-> sections[i].path]

\* C17: the output keeps the order of discovery: the matched list is an
\* order-preserving part of the discovered candidates with no path twice,
\* the directory listing is the matched list, the sections come in the
\* matched list's order (one for each matched file that gives a section),
\* and ranking the top files by size leaves the sections as they were.
C17_DiscoveryOrderKept ==
  /\ NoRepeat(candidates)
  /\ IsOrderedPart(filteredCandidates, candidates)
  /\ IsOrderedPart(matched, filteredCandidates)
  /\ IsOrderedPart(matched, candidates)
  /\ stage \in {"emit", "done"} => listing = matched
  /\ IsOrderedPart(SectionPaths, matched)
  /\ (stage = "done" /\ argv.out # "none") =>
       /\ SectionPaths
            = SelectSeq(matched, LAMBDA p : GivesSection(FileOf(p)))
       /\ \A i \in 1..Len(summary[1].topFiles) :
            InList(SectionPaths, summary[1].topFiles[i].path)

\* the ranking put the second section's file first and the sections stayed
\* in the matched list's order
C17_Witness ==
  /\ stage = "done"
  /\ Len(sections) = 2
  /\ SectionPaths = matched
  /\ Len(fileSizes) = 2
  /\ fileSizes[1].path = sections[2].path
  /\ summary[1].topFiles[1].path = matched[2]

\* C18: exclusion goes before inclusion. A file whose content holds an
\* exclude string is never matched, also when it holds an include string,
\* with include strings and in pass-through mode alike; a file the filter
\* can read (it is readable and within the size guard) that holds no
\* exclude string is matched iff it holds an include string, or at any
\* rate in pass-through mode.
C18_ExclusionBeforeInclusion ==
  /\ \A i \in 1..Len(tree) :
       AnyOccurs(excludeStrings, tree[i].content)
         => ~InList(matched, tree[i].path)
  /\ FilterOver =>
       \A i \in 1..Len(filteredCandidates) :
         LET file == FileOf(filteredCandidates[i])
         IN ( /\ file.readable
              /\ file.fileSize <= MaxFileBytes
              /\ ~AnyOccurs(excludeStrings, file.content) ) =>
              IF Len(strings) = 0 THEN InList(matched, file.path)
              ELSE InList(matched, file.path)
                     <=> AnyOccurs(strings, file.content)

\* a file that holds an include and an exclude string was left out and
\* another one, holding the include string only, was matched
C18_Witness ==
  /\ FilterOver
  /\ Len(strings) > 0
  /\ Len(filteredCandidates) = 2
  /\ LET file == FileOf(filteredCandidates[1])
     IN /\ AnyOccurs(strings, file.content)
        /\ AnyOccurs(excludeStrings, file.content)
  /\ matched = <<filteredCandidates[2]>>

\* the two matchers are compiled
Compiled == stage # "options" /\ pc # "compile" /\ exitCode # <<1>>

\* the exclude matcher lets the file pass: there is none, or the file can
\* be read and holds no exclude string
PassesExclude(file) ==
  \/ excludePattern = <<>>
  \/ /\ file.readable
     /\ file.fileSize <= MaxFileBytes
     /\ ~AnyOccurs(excludeStrings, file.content)

\* C19: an empty list of include literals compiles to the absent matcher
\* (null) and a list with literals to a matcher of a source that is not
\* empty, and likewise for the exclude literals; with the include matcher
\* absent, the matched files are the filtered candidates that the exclude
\* matcher does not reject.
C19_EmptyListCompilesToNull ==
  /\ Len(pattern) <= 1
  /\ Len(excludePattern) <= 1
  /\ Compiled =>
       /\ pattern = <<>> <=> Len(strings) = 0
       /\ excludePattern = <<>> <=> Len(excludeStrings) = 0
       /\ pattern # <<>> => Len(pattern[1].source) > 0
       /\ excludePattern # <<>> => Len(excludePattern[1].source) > 0
  /\ (FilterOver /\ pattern = <<>>) =>
       matched = SelectSeq(filteredCandidates,
                           LAMBDA p : PassesExclude(FileOf(p)))

\* a pass-through run with an exclude matcher that rejected one of two
\* candidates
C19_Witness ==
  /\ FilterOver
  /\ pattern = <<>>
  /\ excludePattern # <<>>
  /\ Len(filteredCandidates) = 2
  /\ Len(matched) = 1

\* every value of the run comes from a config file that could be read
ConfigOnly ==
  /\ argv.f # <<>>
  /\ argv.f[1].readable
  /\ argv.s = <<>>
  /\ argv.e = <<>>
  /\ argv.x = <<>>

\* the command line that carries the values of the config file as flags:
\* a -s for each search line, a -e for each extension line, a -x for each
\* exclude line
FlagsOfConfig ==
  LET config == parseConfigFile(argv.f[1].text)
  IN [argv EXCEPT !.f = <<>>,
                  !.s = config.search,
                  !.e = config.extensions,
                  !.x = config.exclude]

\* C20: provenance does not change behaviour: the include strings, the
\* extension set and the exclude-pattern list that a config file yields
\* are those that the same values yield as command-line flags (the
\* include strings are compared as a set, so a string given twice counts
\* once).
C20_ProvenanceIsIrrelevant ==
  (stage # "options" /\ ConfigOnly) =>
    LET flags == OptionsOf(FlagsOfConfig, ConfigOf(FlagsOfConfig))
    IN /\ Range(strings) = Range(flags.strings)
       /\ Range(extensions) = Range(flags.extensions)
       /\ excludePatterns = flags.excludePatterns

\* concept mode has chosen its keyword list
KeywordsChosen == stage # "file" /\ pc \in {"loop", "tuned", "done"}

\* the place of the first occurrence of v in a list that holds it
FirstPlaceIn(list, v) ==
  CHOOSE i \in 1..Len(list) :
    list[i] = v /\ \A j \in 1..(i - 1) : list[j] # v

\* C21: the keyword list of concept mode is the first `keywords` elements
\* of the de-duplicated seedTerms ++ ranked: no term is in it twice, its
\* terms are seed terms or ranked terms, the seed terms it keeps come
\* before every other term and in the order of the search string, the
\* other terms come in the order of ranked, no term is left out before
\* one that is kept, and its length is the requested count or, when there
\* are fewer terms, the number of terms, so seed terms are cut when the
\* count is smaller than their number.
C21_KeywordListIsSeedsThenRanked ==
  KeywordsChosen =>
    LET kept == Range(topKeywords)
        seeds == Range(seedTerms)
        terms == seeds \cup Range(ranked)
    IN /\ NoRepeat(topKeywords)
       /\ kept \subseteq terms
       /\ Len(topKeywords) <= opts[1].keywords
       /\ Len(topKeywords) = Min2(opts[1].keywords, Cardinality(terms))
       /\ \A i, j \in 1..Len(topKeywords) :
            i < j =>
              /\ topKeywords[j] \in seeds => topKeywords[i] \in seeds
              /\ topKeywords[j] \in seeds =>
                   FirstPlaceIn(seedTerms, topKeywords[i])
                     < FirstPlaceIn(seedTerms, topKeywords[j])
              /\ topKeywords[i] \notin seeds =>
                   PlaceIn(ranked, topKeywords[i])
                     < PlaceIn(ranked, topKeywords[j])
       /\ \A t \in terms \ kept :
            /\ t \in seeds =>
                 /\ kept \subseteq seeds
                 /\ \A k \in kept : FirstPlaceIn(seedTerms, k)
                                      < FirstPlaceIn(seedTerms, t)
            /\ t \notin seeds =>
                 \A k \in kept \ seeds :
                   PlaceIn(ranked, k) < PlaceIn(ranked, t)

\* the count was smaller than the number of seed terms and a seed term
\* was cut
C21_Witness ==
  /\ KeywordsChosen
  /\ Len(topKeywords) = opts[1].keywords
  /\ \E i \in 1..Len(seedTerms) : seedTerms[i] \notin Range(topKeywords)
  /\ Len(ranked) > 1


\* the loop is at the head of an iteration
Tuning == stage = "concept" /\ pc = "loop"

\* the estimate of the iteration that was just run is over the budget
OverBudget == estimate'[1] > EffectiveBudget(maxTokens)

\* no parameter is above its floor
AtFloors == tunedLines <= 1 /\ tunedKeywords <= 2 /\ tunedTopFiles <= 3

\* how far the iteration lowered each parameter
LinesDrop == tunedLines - tunedLines'

KeywordsDrop == tunedKeywords - tunedKeywords'

TopFilesDrop == tunedTopFiles - tunedTopFiles'

\* the iteration lowers exactly one parameter, by one
TightensOne ==
  /\ {LinesDrop, KeywordsDrop, TopFilesDrop} \subseteq {0, 1}
  /\ LinesDrop + KeywordsDrop + TopFilesDrop = 1

\* the priority order and the floors: the keyword count is lowered only
\* when the radius is at most 1, the working-set size only when the radius
\* is at most 1 and the keyword count at most 2; nothing is lowered below
\* its floor and nothing is raised, so nothing is above its first value
OrderAndFloors ==
  /\ LinesDrop >= 0 /\ KeywordsDrop >= 0 /\ TopFilesDrop >= 0
  /\ KeywordsDrop > 0 => tunedLines <= 1
  /\ TopFilesDrop > 0 => tunedLines <= 1 /\ tunedKeywords <= 2
  /\ LinesDrop > 0 => tunedLines' >= 1
  /\ KeywordsDrop > 0 => tunedKeywords' >= 2
  /\ TopFilesDrop > 0 => tunedTopFiles' >= 3
  /\ tunedLines' <= InitialLines(packArgs)
  /\ tunedKeywords' <= opts[1].keywords
  /\ tunedTopFiles' <= opts[1].topFiles

\* C22 as stated: every iteration of the tuning loop whose estimate is over
\* the effective budget lowers exactly one parameter by one, in the
\* priority order radius, keyword count, working-set size, never below the
\* floors 1, 2 and 3 and never raising one.  (The iteration that is over
\* budget with every parameter at its floor lowers none.)
C22_EveryOverBudgetIterationTightens ==
  [][Tuning => /\ OrderAndFloors
               /\ OverBudget => TightensOne]_vars

\* C22: every iteration of the tuning loop whose estimate is over the
\* effective budget lowers exactly one parameter by one, unless none is
\* above its floor, when the iteration ends the loop and lowers nothing; an
\* iteration within the budget lowers nothing; the keyword count is lowered
\* only when the radius is at most 1, the working-set size only when the
\* radius is at most 1 and the keyword count at most 2; the radius is never
\* lowered below 1, the keyword count below 2, the working-set size below
\* 3, and none is ever above its first value.
C22_TightensInPriorityOrder ==
  [][Tuning => /\ OrderAndFloors
               /\ OverBudget /\ ~AtFloors => TightensOne /\ pc' = "loop"
               /\ OverBudget /\ AtFloors =>
                    /\ pc' = "tuned"
                    /\ UNCHANGED <<tunedLines, tunedKeywords, tunedTopFiles>>
               /\ ~OverBudget =>
                    /\ pc' = "tuned"
                    /\ UNCHANGED <<tunedLines, tunedKeywords,
                                   tunedTopFiles>>]_vars

\* the loop lowered all three parameters in turn and ended over budget at
\* the floors
C22_Witness ==
  /\ stage = "concept"
  /\ pc = "tuned"
  /\ estimate # <<>>
  /\ estimate[1] > EffectiveBudget(maxTokens)
  /\ tunedLines = 1 /\ tunedLines < InitialLines(packArgs)
  /\ tunedKeywords = 2 /\ tunedKeywords < opts[1].keywords
  /\ tunedTopFiles = 3 /\ tunedTopFiles < opts[1].topFiles


\* the tuning loop was entered and left
TuningLeft ==
  /\ stage \in {"concept", "exited"}
  /\ pc \in {"tuned", "done"}
  /\ maxTokens > 0

\* the estimate for the present radius, keyword count and working-set size
PresentEstimate ==
  estimateTokensFor(SliceTo(topDocs, tunedTopFiles),
                    SliceTo(topKeywords, tunedKeywords), tunedLines)

\* what every iteration that goes on lowers: the sum of the parameters,
\* which are natural numbers
TuningMeasure == tunedLines + tunedKeywords + tunedTopFiles

\* C23: the tuning loop ends, whatever the working set, the keyword list,
\* the first values of the parameters and the positive budget: an
\* iteration leaves the loop or lowers the sum of the three parameters,
\* which is never negative, so there are at most as many iterations as the
\* first sum plus one; when the loop has ended, the estimate for the final radius, keyword count and working-set
\* size (the one the last iteration computed) is at most eight tenths of
\* maxTokens, rounded down, or the radius is at most 1, the keyword count
\* at most 2 and the working-set size at most 3.
C23_TuningEnds ==
  /\ [][Tuning => \/ TuningLeft'
                  \/ /\ Tuning'
                     /\ TuningMeasure' < TuningMeasure
                     /\ TuningMeasure' >= 0]_vars
  /\ [](TuningLeft =>
          /\ estimate = <<PresentEstimate>>
          /\ \/ 10 * PresentEstimate <= 8 * maxTokens
             \/ tunedLines <= 1 /\ tunedKeywords <= 2 /\ tunedTopFiles <= 3)

\* the loop tightened and then ended within the budget, above the floors
C23_Witness ==
  /\ TuningLeft
  /\ tunedLines < InitialLines(packArgs)
  /\ PresentEstimate > 0
  /\ 10 * PresentEstimate <= 8 * maxTokens
  /\ tunedKeywords > 2
  /\ tunedTopFiles > 3


\* the while loop of findAllMatches took a match in this step
MatchTaken == pc = "scan" /\ matches' # matches

\* C24: no empty literal reaches the pattern compiler: once the options
\* are merged, with a config file or without one, neither the include list
\* nor the exclude list holds an empty string, so every matcher is built
\* from literals of at least one character; every match findAllMatches
\* takes is then at least one character long and moves lastIndex forward
\* within the line, so the while loop over a line ends after at most as
\* many matches as the line has characters.
C24_NoEmptyLiteralIsCompiled ==
  /\ [](/\ <<>> \notin Range(strings)
        /\ <<>> \notin Range(excludeStrings)
        /\ pattern # <<>> => strings # <<>>
        /\ excludePattern # <<>> => excludeStrings # <<>>
        /\ Len(matches) <= Len(content))
  /\ [][MatchTaken =>
          /\ matches'[Len(matches')].match # <<>>
          /\ lastIndex' > lastIndex
          /\ lastIndex' <= Len(lines[lineIndex + 1])]_vars

\* a file is scanned by a matcher of a run that gave empty values of -s and
\* -S beside a config file
C24_Witness ==
  /\ stage = "emit"
  /\ pc = "scan"
  /\ matches # <<>>
  /\ argv.f # <<>>
  /\ <<>> \in Range(argv.s)
  /\ <<>> \in Range(argv.S)
  /\ excludePattern # <<>>


\* the documents were scored
Scored == stage # "file" /\ pc \in {"keywords", "loop", "tuned", "done"}

\* the name ends in the suffix
NameEndsWith(name, suffix) ==
  /\ Len(name) >= Len(suffix)
  /\ SubSeq(name, Len(name) - Len(suffix) + 1, Len(name)) = suffix

\* a type-declaration file: its name ends in .d.ts
IsDeclarationFile(docId) ==
  NameEndsWith(LowerCase(docId), <<".", "d", ".", "t", "s">>)

\* the product of the factors that apply to a document, in thousandths:
\* 0.5 for .md, 0.6 for .json, .yaml and .yml, 0.7 for a type-declaration
\* file, 0.6 for a test file, and 1 when none applies
ProductOfFactors(docId) ==
  LET ext == LowerCase(ExtName(docId))
      documentation == IF ext = <<".", "m", "d">> THEN 5 ELSE 10
      config == IF ext \in {<<".", "j", "s", "o", "n">>,
                            <<".", "y", "a", "m", "l">>,
                            <<".", "y", "m", "l">>}
                THEN 6 ELSE 10
      declaration == IF IsDeclarationFile(docId) THEN 7 ELSE 10
      test == IF isTest(docId) THEN 6 ELSE 10
  IN (documentation * config * declaration * test) \div 10

\* C25: in keyword scoring the fileWeight of a document is the product of
\* the factors that apply to it (0.5 for a .md file, 0.6 for a .json, .yaml
\* or .yml file, 0.7 for a file whose name ends in .d.ts, 0.6 for a test
\* file) and 1 when none applies; every document named *.d.ts has the
\* factor 0.7.
C25_WeightIsProductOfFactors ==
  Scored =>
    \A d \in 1..Len(topDocs) :
      fileWeights[d] = ProductOfFactors(topDocs[d].id)


\* the documents and the keywords the estimate is made for
DocsSubset == SliceTo(topDocs, tunedTopFiles)

KwSubset == SliceTo(topKeywords, tunedKeywords)

\* the radii that can be tightened
TightenableRadii == 2..(MaxLines + 1)

\* the distances between a matched line and the matched line before it
GapsOf(matchLines) ==
  {m - l : <<l, m>> \in
     {p \in matchLines \X matchLines :
        /\ p[1] < p[2]
        /\ ~\E n \in matchLines : p[1] < n /\ n < p[2]}}

\* no document has two successive matched lines exactly r lines apart:
\* going from r to r - 1 splits no cluster
SplitsNoCluster(docs, keywords, r) ==
  \A d \in 1..Len(docs) :
    r \notin GapsOf(MatchLinesOf(docs[d].content, keywords))

\* C26 as stated: tightening the radius never raises the estimate: for the
\* documents and keywords at hand and every radius r >= 2,
\* estimateTokensFor(docs, keywords, r - 1) <= estimateTokensFor(docs,
\* keywords, r).
C26_TighterRadiusNeverCostsMore ==
  KeywordsChosen =>
    \A r \in TightenableRadii :
      estimateTokensFor(DocsSubset, KwSubset, r - 1)
        <= estimateTokensFor(DocsSubset, KwSubset, r)

\* C26: for the documents and keywords at hand and every radius r >= 2,
\* estimateTokensFor(docs, keywords, r - 1) <= estimateTokensFor(docs,
\* keywords, r) whenever no document has two successive matched lines
\* exactly r lines apart; the number of clusters of a document never falls
\* when the radius is tightened.
C26_TighterRadiusCostsNoMoreUnlessSplit ==
  KeywordsChosen =>
    \A r \in TightenableRadii :
      /\ SplitsNoCluster(DocsSubset, KwSubset, r) =>
           estimateTokensFor(DocsSubset, KwSubset, r - 1)
             <= estimateTokensFor(DocsSubset, KwSubset, r)
      /\ \A d \in 1..Len(DocsSubset) :
           LET matchLines == MatchLinesOf(DocsSubset[d].content, KwSubset)
           IN ClusterCount(matchLines, r - 1) >= ClusterCount(matchLines, r)

\* the loop tightened the radius from 2 to 1 over documents with several
\* matched lines none of which are 2 apart, and the estimate fell
C26_Witness ==
  /\ KeywordsChosen
  /\ InitialLines(packArgs) = 2
  /\ tunedLines = 1
  /\ SplitsNoCluster(DocsSubset, KwSubset, 2)
  /\ \E d \in 1..Len(DocsSubset) :
       GapsOf(MatchLinesOf(DocsSubset[d].content, KwSubset)) # {}
  /\ estimateTokensFor(DocsSubset, KwSubset, 1)
       < estimateTokensFor(DocsSubset, KwSubset, 2)


\* a matcher that holds nothing of the texts it was tested on
Stateless(re) == re = <<>> \/ ("g" \notin re[1].flags /\ re[1].lastIndex = 0)

\* what matchers fresh from the compiler say of the file, whatever was
\* tested before it: its size, its content and the two matchers decide
SelectedAlone(file) ==
  LET pat == CompilePattern(strings, caseSensitive)
      xpat == CompilePattern(excludeStrings, caseSensitive)
      canRead == file.readable /\ file.fileSize <= MaxFileBytes
      excluded == xpat # <<>> /\ RegExpTest(xpat[1], file.content)
  IN IF pat = <<>>
     THEN xpat = <<>> \/ (canRead /\ ~excluded)
     ELSE canRead /\ ~excluded /\ RegExpTest(pat[1], file.content)

\* the matches of one line from the index on, as a linePattern fresh for
\* the line finds them
RECURSIVE MatchPositionsOnLine(_, _, _, _)
MatchPositionsOnLine(re, line, number, from) ==
  LET m == RegExpExec(re, line, from)
  IN IF m = <<>> \/ m[1].end <= from THEN <<>>
     ELSE <<[line |-> number, column |-> m[1].index,
             match |-> SubSeq(line, m[1].index + 1, m[1].end)]>>
          \o MatchPositionsOnLine(re, line, number, m[1].end)

\* the MatchPosition sequence of a content under a matcher
MatchPositionsOf(text, re) ==
  LET ls == SplitLines(text)
  IN Flatten([k \in 1..Len(ls) |->
                MatchPositionsOnLine(LinePattern(re), ls[k], k, 0)])

\* C27: file selection is deterministic and does not depend on the order of
\* the candidates: the two matchers have no g flag and keep no lastIndex
\* from one file to the next, and a candidate is matched exactly when
\* matchers fresh from the compiler select it by its own size and content;
\* every line is scanned from index 0, and the MatchPosition sequence of a
\* scan is a function of the content and the matcher, so scanning the same
\* content again gives the same sequence.
C27_SelectionKeepsNoState ==
  /\ [](/\ Stateless(pattern)
        /\ Stateless(excludePattern)
        /\ FilterOver =>
             matched = SelectSeq(filteredCandidates,
                                 LAMBDA p : SelectedAlone(FileOf(p)))
        /\ (stage = "emit" /\ ScanOver) =>
             matches = MatchPositionsOf(content, pattern[1]))
  /\ [][lineIndex' # lineIndex => lastIndex' = 0]_vars

\* two files of the same content were matched one after the other and both
\* were scanned; the scan of the second found what that of the first found
C27_Witness ==
  /\ stage = "emit"
  /\ fi = 1
  /\ Len(matched) = 2
  /\ Len(sections) = 1
  /\ FileOf(matched[1]).content = FileOf(matched[2]).content
  /\ excludePattern # <<>>
  /\ ScanOver
  /\ matches # <<>>


\* extractContextWindows is under way for a file of the output loop
Extracting == stage = "emit" /\ pc \in {"scan", "merge", "returned"}

\* the run has no include string: the files are selected by their
\* extensions (and the exclude strings) alone
PassThrough == Compiled /\ Len(strings) = 0

\* C28: extractContextWindows is never called with the absent matcher: it
\* runs only for a run with at least one include string, and with a radius
\* that is not zero; in pass-through mode the value of -l is ignored: the
\* output loop gives every matched file that can be read its whole content
\* as its section, no window is built and none is counted.
C28_NoExtractionWithoutMatcher ==
  /\ [](Extracting =>
          /\ pattern # <<>>
          /\ Len(strings) > 0
          /\ contextLines # 0)
  /\ [](PassThrough =>
          /\ pattern = <<>>
          /\ section \in {"none", "whole"}
          /\ FileEmitted => section = IF warned THEN "none" ELSE "whole"
          /\ \A i \in 1..Len(sections) : sections[i].kind = "whole"
          /\ totalWindowCount = 0
          /\ totalMatchCount = 0)

\* a run without include strings and with -l 1 has written the whole file
\* as its section
C28_Witness ==
  /\ PassThrough
  /\ argv.l = <<1>>
  /\ contextLines = 1
  /\ stage = "done"
  /\ sections # <<>>
  /\ sections[1].kind = "whole"


\* the run extracts context windows: it has include strings and a radius
\* that is not zero
ContextMode == Compiled /\ EffectiveContextLines # 0

\* the output loop ends its work on the file under way in this step
FileClosed == FileEmitted /\ fi' # fi

\* C29: in context mode every file section has at least one window and at
\* least one match; the totals counted so far, and the Total Matches and
\* Context Windows of the Pack Summary, are the sums of the matches and the
\* windows of the sections; a matched file that has no window or cannot be
\* read gets no section and adds nothing to either total, every other
\* matched file adds its windows and their matches; the Total Files of the
\* summary is the length of the matched list.
C29_SectionsAndTotalsAgree ==
  /\ [](ContextMode =>
          /\ \A i \in 1..Len(sections) :
               /\ sections[i].kind = "windows"
               /\ sections[i].windows >= 1
               /\ sections[i].matches >= 1
          /\ ~summaryOnly =>
               /\ totalMatchCount
                    = Sum([i \in 1..Len(sections) |-> sections[i].matches])
               /\ totalWindowCount
                    = Sum([i \in 1..Len(sections) |-> sections[i].windows])
          /\ SummaryPrinted =>
               /\ summary[1].totalMatches = totalMatchCount
               /\ summary[1].totalWindows = totalWindowCount
               /\ summary[1].totalFiles = Len(matched))
  /\ [][(ContextMode /\ FileClosed) =>
          IF warned \/ Len(merged) = 0
          THEN /\ sections' = sections
               /\ fileSizes' = fileSizes
               /\ totalMatchCount' = totalMatchCount
               /\ totalWindowCount' = totalWindowCount
          ELSE /\ Len(fileSizes') = Len(fileSizes) + 1
               /\ MatchCount(merged) >= 1
               /\ totalMatchCount' = totalMatchCount + MatchCount(merged)
               /\ totalWindowCount' = totalWindowCount + Len(merged)]_vars

\* of two matched files one has no window, as its only match lies across a
\* line break, and has no section; the summary counts two files and the
\* windows and matches of the one section
C29_Witness ==
  /\ ContextMode
  /\ SummaryPrinted
  /\ ~summaryOnly
  /\ Len(matched) = 2
  /\ Len(sections) = 1
  /\ warnings = <<>>
  /\ summary[1].totalFiles = 2
  /\ summary[1].totalWindows = sections[1].windows
  /\ summary[1].totalMatches = sections[1].matches


\* the arguments for packx are built
ArgsBuilt == stage = "concept" /\ pc = "done"

\* the argument gives the context radius: -l or --lines before its value,
\* --lines=<n>, or -l<n>
CarriesLines(a) ==
  \/ IsLinesFlag(a)
  \/ StartsWith(a, <<"-", "-", "l", "i", "n", "e", "s", "=">>)
  \/ /\ Len(a) > 2
     /\ StartsWith(a, FlagL)
     /\ \A i \in 3..Len(a) : a[i] \in DigitChars

\* the argument gives the extensions
CarriesExt(a) ==
  \/ a \in {FlagE, <<"-", "-", "e", "x", "t", "e", "n", "s", "i", "o", "n",
                     "s">>}
  \/ StartsWith(a, <<"-", "-", "e", "x", "t", "e", "n", "s", "i", "o", "n",
                     "s", "=">>)

\* the argument gives the excluded extensions
CarriesExcl(a) ==
  \/ a \in {FlagX, <<"-", "-", "e", "x", "c", "l", "u", "d", "e", "-", "e",
                     "x", "t", "e", "n", "s", "i", "o", "n", "s">>}
  \/ StartsWith(a, <<"-", "-", "e", "x", "c", "l", "u", "d", "e", "-", "e",
                     "x", "t", "e", "n", "s", "i", "o", "n", "s", "=">>)

\* what concept mode puts before the user's arguments
AddedArgs == SubSeq(packxArgs, 1, Len(packxArgs) - Len(packArgs))

\* the user's arguments as they are forwarded
ForwardedArgs ==
  SubSeq(packxArgs, Len(packxArgs) - Len(packArgs) + 1, Len(packxArgs))

\* C30: the arguments handed to packx carry the context radius once: the
\* user's arguments after "--" are forwarded unchanged; when one of them
\* gives the radius no -l is added, otherwise exactly one "-l <tunedLines>"
\* is; likewise -e and -x are added only when the user gave none.
C30_RadiusForwardedOnce ==
  ArgsBuilt =>
    /\ ForwardedArgs = packArgs
    /\ IF \E i \in 1..Len(packArgs) : CarriesLines(packArgs[i])
       THEN \A i \in 1..Len(AddedArgs) : ~CarriesLines(AddedArgs[i])
       ELSE /\ Cardinality({i \in 1..Len(AddedArgs) :
                              CarriesLines(AddedArgs[i])}) = 1
            /\ \E i \in 1..(Len(AddedArgs) - 1) :
                 /\ AddedArgs[i] = FlagL
                 /\ AddedArgs[i + 1] = NumberText(tunedLines)
    /\ (\E i \in 1..Len(packArgs) : CarriesExt(packArgs[i])) =>
         \A i \in 1..Len(AddedArgs) : ~CarriesExt(AddedArgs[i])
    /\ (\E i \in 1..Len(packArgs) : CarriesExcl(packArgs[i])) =>
         \A i \in 1..Len(AddedArgs) : ~CarriesExcl(AddedArgs[i])

====
